---- MODULE Spec2Model ----
(***************************************************************************)
(* Palindrome reversible VM: the paged tape with its trail                 *)
(* (src/src/tape/core.rs), the segmented tape (src/src/tape/segment.rs),   *)
(* the register file (src/src/vm/registers.rs) and the executor            *)
(* (src/src/vm/executor.rs).                                               *)
(*                                                                         *)
(* Every method is an operator from the object's value to its new value,   *)
(* written statement by statement after the Rust source; the actions       *)
(* apply one method call each.  A page's 4096-byte array is kept as the    *)
(* map of its non-zero bytes (offset -> byte); a missing offset is 0.      *)
(* A Rust panic (arithmetic overflow in a debug build, a slice index out   *)
(* of range in any build) is recorded in the field `fault` of the tape     *)
(* the call works on: once set, the rest of the call is skipped, as        *)
(* unwinding does, and no further call is made on the object.  A loop      *)
(* whose count wrapped to about 2^64 is recorded the same way, as "hang".  *)
(* Machine words are WordBytes bytes wide (8 in the source); the stack     *)
(* slot and the little-endian conversions scale with it.                   *)
(***************************************************************************)
EXTENDS Integers, Sequences, FiniteSets, TLC

VARIABLES
    build,      \* "debug" (overflow checks on) or "release" (wrapping)
    tape,       \* a stand-alone Tape                      (core.rs:7-16)
    stape,      \* a stand-alone SegmentedTape             (segment.rs:99-102)
    vm,         \* the VM                                  (executor.rs:9-28)
    last,       \* the last call: its name, inputs, result and the value before it
    budget,     \* number of calls the run may still make
    snaps,      \* for each trail entry, the observable tape just before it was journaled
    written,    \* position -> byte most recently stored there through the Tape API
    cpsnap,     \* checkpoint name -> observable state recorded when it was taken
    run,        \* the VM's calls so far: executes, whether all returned Ok, reversals
    runner      \* the runner's program, locals and position       (pvmr.rs:53-101)

vars == <<build, tape, stape, vm, last, budget, snaps, written, cpsnap, run, runner>>

----------------------------------------------------------------------------
(* Program constants *)

PAGE_SIZE == 4096

NUM_REGISTERS == 16

SEGMENT_SIZE == 1048576

(* Bounds of the model *)

\* Bytes of a machine word.  The source uses i64 (8 bytes); the model keeps
\* the little-endian two's-complement layout at a width whose values fit
\* the model checker's integers and still cover the 3 MiB of segments.
WordBytes == 3

MaxTapeOps == 4

----------------------------------------------------------------------------
(* Rust integer arithmetic *)

Min(a, b) == IF a < b THEN a ELSE b

\* i64 `/` truncates toward zero
TruncDiv(a, b) == IF a >= 0 THEN a \div b ELSE -((-a) \div b)

\* i64 `%` takes the sign of the dividend
TruncRem(a, b) == a - b * TruncDiv(a, b)

Zeros(n) == [i \in 1..n |-> 0]

EmptyMap == <<>>

MapPut(m, k, v) == [x \in DOMAIN m \cup {k} |-> IF x = k THEN v ELSE m[x]]

MapRemove(m, k) == [x \in DOMAIN m \ {k} |-> m[x]]

----------------------------------------------------------------------------
(* Page: data: Box<[u8; 4096]>, cow_refs *)

NewPage == [data |-> EmptyMap, cow_refs |-> 0]

PageByte(page, off) == IF off \in DOMAIN page.data THEN page.data[off] ELSE 0

\* &page.data[off .. off + n]
PageSlice(page, off, n) == [i \in 1..n |-> PageByte(page, off + i - 1)]

\* data[off .. off + Len(bytes)].copy_from_slice(bytes)
CopyFromSlice(data, off, bytes) ==
    LET rng  == off..(off + Len(bytes) - 1)
        keep == (DOMAIN data \ rng) \cup {o \in rng : bytes[o - off + 1] # 0}
    IN  [o \in keep |-> IF o \in rng THEN bytes[o - off + 1] ELSE data[o]]

\* pages.entry(page_idx).or_insert_with(|| Page { data: [0; 4096], cow_refs: 0 })
EntryOrInsert(pages, page_idx) ==
    IF page_idx \in DOMAIN pages THEN pages ELSE MapPut(pages, page_idx, NewPage)

----------------------------------------------------------------------------
(* Tape *)

TapeNew ==
    [pages |-> EmptyMap,
     head  |-> 0,
     marks |-> EmptyMap,
     trail |-> [operations |-> <<>>, checkpoints |-> EmptyMap],
     fault |-> "none"]

Faulted(t) == t.fault # "none"

\* Tape::read: the loop over (result, pos).  `(pos % 4096) as usize` of a
\* negative remainder is at least 2^63: with the page present,
\* `4096 - page_offset` overflows (panic in a debug build) and wraps in a
\* release build, where the slice `page_offset..page_offset + available`
\* is then out of range (panic).
RECURSIVE ReadLoop(_, _, _, _)
ReadLoop(pages, pos, len, result) ==
    IF ~(Len(result) < len) THEN [data |-> result, fault |-> "none"]
    ELSE
        LET page_idx    == TruncDiv(pos, PAGE_SIZE)
            page_offset == TruncRem(pos, PAGE_SIZE)
        IN  IF page_idx \in DOMAIN pages
            THEN IF page_offset < 0
                 THEN [data |-> result, fault |-> "panic"]
                 ELSE LET available == Min(PAGE_SIZE - page_offset, len - Len(result))
                      IN  ReadLoop(pages, pos + available, len,
                                   result \o PageSlice(pages[page_idx], page_offset, available))
            ELSE LET zeros_needed == Min(len - Len(result), PAGE_SIZE)
                 IN  ReadLoop(pages, pos + zeros_needed, len, result \o Zeros(zeros_needed))

TapeRead(t, len) == ReadLoop(t.pages, t.head, len, <<>>)

\* Tape::write, the loop over (pos, written).  With a negative remainder a
\* debug build panics on `4096 - page_offset` before the page is looked up;
\* a release build wraps, inserts the page and panics on the slice.
RECURSIVE WriteLoop(_, _, _, _)
WriteLoop(pages, pos, data, done) ==
    IF ~(done < Len(data)) THEN [pages |-> pages, fault |-> "none"]
    ELSE
        LET page_idx    == TruncDiv(pos, PAGE_SIZE)
            page_offset == TruncRem(pos, PAGE_SIZE)
        IN  IF page_offset < 0
            THEN [pages |-> IF build = "debug" THEN pages ELSE EntryOrInsert(pages, page_idx),
                  fault |-> "panic"]
            ELSE
                LET to_write == Min(Len(data) - done, PAGE_SIZE - page_offset)
                    chunk    == SubSeq(data, done + 1, done + to_write)
                    pages1   == EntryOrInsert(pages, page_idx)
                    page     == pages1[page_idx]
                    newpage  == IF page.cow_refs > 0
                                THEN [data     |-> CopyFromSlice(page.data, page_offset, chunk),
                                      cow_refs |-> 0]
                                ELSE [page EXCEPT !.data = CopyFromSlice(page.data, page_offset, chunk)]
                IN  WriteLoop([pages1 EXCEPT ![page_idx] = newpage], pos + to_write, data,
                              done + to_write)

WriteOp(pos, old, new) == [op |-> "Write", pos |-> pos, old |-> old, new |-> new]

SeekOp(old_pos, new_pos) == [op |-> "Seek", old_pos |-> old_pos, new_pos |-> new_pos]

MarkOp(label, pos) == [op |-> "Mark", label |-> label, pos |-> pos]

TrailPush(t, op) == [t EXCEPT !.trail.operations = Append(@, op)]

TapeWrite(t, data) ==
    IF Faulted(t) THEN t
    ELSE
        LET old_data == TapeRead(t, Len(data))
        IN  IF old_data.fault # "none" THEN [t EXCEPT !.fault = old_data.fault]
            ELSE
                LET t1 == TrailPush(t, WriteOp(t.head, old_data.data, data))
                    w  == WriteLoop(t1.pages, t1.head, data, 0)
                IN  [t1 EXCEPT !.pages = w.pages, !.fault = w.fault]

TapeSeek(t, pos) ==
    IF Faulted(t) THEN t
    ELSE [TrailPush(t, SeekOp(t.head, pos)) EXCEPT !.head = pos]

TapeAdvance(t, delta) == TapeSeek(t, t.head + delta)

TapeMark(t, label) ==
    IF Faulted(t) THEN t
    ELSE [TrailPush(t, MarkOp(label, t.head)) EXCEPT !.marks = MapPut(@, label, t.head)]

\* Result<(), String>: ok is FALSE for Err
TapeSeekMark(t, label) ==
    IF Faulted(t) THEN [t |-> t, ok |-> FALSE]
    ELSE IF label \notin DOMAIN t.marks THEN [t |-> t, ok |-> FALSE]
    ELSE [t |-> TapeSeek(t, t.marks[label]), ok |-> TRUE]

TapeCheckpoint(t, name) ==
    IF Faulted(t) THEN t
    ELSE [t EXCEPT !.trail.checkpoints = MapPut(@, name, Len(t.trail.operations))]

\* Tape::write_raw: the loop of write without the copy-on-write branch
RECURSIVE WriteRawLoop(_, _, _, _)
WriteRawLoop(pages, pos, data, done) ==
    IF ~(done < Len(data)) THEN [pages |-> pages, fault |-> "none"]
    ELSE
        LET page_idx    == TruncDiv(pos, PAGE_SIZE)
            page_offset == TruncRem(pos, PAGE_SIZE)
        IN  IF page_offset < 0
            THEN [pages |-> IF build = "debug" THEN pages ELSE EntryOrInsert(pages, page_idx),
                  fault |-> "panic"]
            ELSE
                LET to_write == Min(Len(data) - done, PAGE_SIZE - page_offset)
                    chunk    == SubSeq(data, done + 1, done + to_write)
                    pages1   == EntryOrInsert(pages, page_idx)
                    page     == pages1[page_idx]
                    newpage  == [page EXCEPT !.data = CopyFromSlice(page.data, page_offset, chunk)]
                IN  WriteRawLoop([pages1 EXCEPT ![page_idx] = newpage], pos + to_write, data,
                                 done + to_write)

WriteRaw(t, data) ==
    IF Faulted(t) THEN t
    ELSE LET w == WriteRawLoop(t.pages, t.head, data, 0)
         IN  [t EXCEPT !.pages = w.pages, !.fault = w.fault]

\* the same undo going through the journaling seek and write
UndoWriteJournaled(t, op) == TapeWrite(TapeSeek(t, op.pos), op.old)

\* TrailOp::Write: self.head = pos; self.write_raw(&old)
UndoWrite(t, op) == WriteRaw([t EXCEPT !.head = op.pos], op.old)

UndoOperation(t, op) ==
    IF Faulted(t) THEN t
    ELSE CASE op.op = "Write" -> UndoWrite(t, op)
           [] op.op = "Seek"  -> [t EXCEPT !.head = op.old_pos]
           [] op.op = "Mark"  -> [t EXCEPT !.marks = MapRemove(@, op.label)]
           [] op.op = "SegmentCreate" -> t
           [] op.op = "SegmentModify" -> t

\* self.trail.operations.pop() followed by undo_operation(op)
PopAndUndo(t) ==
    LET ops == t.trail.operations
        op  == ops[Len(ops)]
    IN  UndoOperation([t EXCEPT !.trail.operations = SubSeq(ops, 1, Len(ops) - 1)], op)

\* while self.trail.operations.len() > checkpoint_pos { pop; undo }
RECURSIVE RewindLoop(_, _)
RewindLoop(t, checkpoint_pos) ==
    IF Faulted(t) \/ ~(Len(t.trail.operations) > checkpoint_pos) THEN t
    ELSE RewindLoop(PopAndUndo(t), checkpoint_pos)

TapeRewind(t, name) ==
    IF Faulted(t) THEN [t |-> t, ok |-> FALSE]
    ELSE IF name \notin DOMAIN t.trail.checkpoints THEN [t |-> t, ok |-> FALSE]
    ELSE LET r == RewindLoop(t, t.trail.checkpoints[name])
         IN  [t |-> r, ok |-> ~Faulted(r)]

\* for _ in 0..n { if let Some(op) = pop() { undo } }: the iterations left
\* once the trail is empty change nothing
RECURSIVE TapeRewindN(_, _)
TapeRewindN(t, n) ==
    IF Faulted(t) \/ n <= 0 \/ Len(t.trail.operations) = 0 THEN t
    ELSE TapeRewindN(PopAndUndo(t), n - 1)

TrailLen(t) == Len(t.trail.operations)

----------------------------------------------------------------------------
(* What a client of a Tape can observe *)

\* position -> stored non-zero byte (page p, offset o is position p * 4096 + o)
TapeBytes(t) ==
    LET cells == {<<p, o>> \in UNION {{p} \X DOMAIN t.pages[p].data : p \in DOMAIN t.pages} : TRUE}
        posOf(c) == c[1] * PAGE_SIZE + c[2]
    IN  [x \in {posOf(c) : c \in cells} |->
            LET c == CHOOSE c \in cells : posOf(c) = x IN t.pages[c[1]].data[c[2]]]

TapeObs(t) == [head |-> t.head, bytes |-> TapeBytes(t), marks |-> t.marks]

\* the byte a position holds according to a position -> byte map
At(m, p) == IF p \in DOMAIN m THEN m[p] ELSE 0

\* m with data laid at pos, pos + 1, ...
Overlay(m, pos, data) ==
    LET rng  == pos..(pos + Len(data) - 1)
        keep == (DOMAIN m \ rng) \cup {p \in rng : data[p - pos + 1] # 0}
    IN  [p \in keep |-> IF p \in rng THEN data[p - pos + 1] ELSE m[p]]


----------------------------------------------------------------------------
(* SegmentedTape *)

SegmentedTapeNew == [tape |-> TapeNew, segments |-> EmptyMap]

SegmentCreateOp(name, start, size) ==
    [op |-> "SegmentCreate", name |-> name, start |-> start, size |-> size]

SegmentModifyOp(name, offset, old_data, new_data) ==
    [op |-> "SegmentModify", name |-> name, offset |-> offset,
     old_data |-> old_data, new_data |-> new_data]

\* the orders in which a HashMap with these keys may be iterated
IterationOrders(keys) ==
    {o \in [1..Cardinality(keys) -> keys] : \A i, j \in DOMAIN o : i # j => o[i] # o[j]}

\* segments.sort_by_key(|s| s.0): a stable sort, so pairs with equal start
\* keep the order they were iterated in
RECURSIVE SortByStart(_)
SortByStart(pairs) ==
    IF Len(pairs) = 0 THEN <<>>
    ELSE LET front  == SortByStart(SubSeq(pairs, 1, Len(pairs) - 1))
             x      == pairs[Len(pairs)]
             before == Cardinality({i \in DOMAIN front : front[i][1] <= x[1]})
         IN  SubSeq(front, 1, before) \o <<x>> \o SubSeq(front, before + 1, Len(front))

\* an allocator that hands out address 0 every time
FirstFitAtZero(pairs, i, cursor, size) == 0

\* the loop of find_free_space over the sorted (start, end) pairs
RECURSIVE FirstFit(_, _, _, _)
FirstFit(pairs, i, cursor, size) ==
    IF i > Len(pairs) THEN cursor
    ELSE IF pairs[i][1] - cursor >= size THEN cursor
    ELSE FirstFit(pairs, i + 1, pairs[i][2], size)

\* SegmentedTape::find_free_space, with the map iterated in `order`
FindFreeSpace(st, size, order) ==
    LET pairs == [i \in DOMAIN order |->
                    <<st.segments[order[i]].start,
                      st.segments[order[i]].start + st.segments[order[i]].size>>]
    IN  FirstFit(SortByStart(pairs), 1, 0, size)

\* a name taken for free whatever the map holds
NeverExists(st, name) == FALSE

\* self.segments.contains_key(&name)
AlreadyExists(st, name) == name \in DOMAIN st.segments

\* SegmentedTape::create_segment: Result<i64, String>
CreateSegment(st, name, size, segment_type, order) ==
    IF AlreadyExists(st, name) THEN [st |-> st, ok |-> FALSE, start |-> 0]
    ELSE
        LET start   == FindFreeSpace(st, size, order)
            segment == [name |-> name, start |-> start, size |-> size,
                        segment_type |-> segment_type, indices |-> <<>>]
        IN  [st    |-> [tape     |-> TrailPush(st.tape, SegmentCreateOp(name, start, size)),
                        segments |-> MapPut(st.segments, name, segment)],
             ok    |-> TRUE,
             start |-> start]

\* the bounds test with the last byte of the segment left out
OutOfBoundsStrict(segment, offset, len) == offset < 0 \/ offset + len >= segment.size

\* offset < 0 || offset + len as i64 > segment.size as i64
OutOfBounds(segment, offset, len) == offset < 0 \/ offset + len > segment.size

\* the end of write_segment without the seek back
KeepPosition(t, old_pos) == t

\* write_segment: self.tape.seek(old_pos)
RestorePosition(t, old_pos) == TapeSeek(t, old_pos)

\* SegmentedTape::read_segment: works on a clone of the tape
ReadSegment(st, name, offset, len) ==
    IF name \notin DOMAIN st.segments THEN [ok |-> FALSE, data |-> <<>>, fault |-> "none"]
    ELSE
        LET segment == st.segments[name]
        IN  IF OutOfBounds(segment, offset, len)
            THEN [ok |-> FALSE, data |-> <<>>, fault |-> "none"]
            ELSE LET clone == TapeSeek(st.tape, segment.start + offset)
                     r     == TapeRead(clone, len)
                 IN  [ok |-> r.fault = "none", data |-> r.data, fault |-> r.fault]

\* SegmentedTape::write_segment
WriteSegment(st, name, offset, data) ==
    IF name \notin DOMAIN st.segments THEN [st |-> st, ok |-> FALSE]
    ELSE
        LET segment == st.segments[name]
        IN  IF OutOfBounds(segment, offset, Len(data))
            THEN [st |-> st, ok |-> FALSE]
            ELSE
                LET old_pos  == st.tape.head
                    t1       == TapeSeek(st.tape, segment.start + offset)
                    old_data == TapeRead(t1, Len(data))
                    t2       == IF old_data.fault # "none"
                                THEN [t1 EXCEPT !.fault = old_data.fault]
                                ELSE TrailPush(t1, SegmentModifyOp(name, offset, old_data.data, data))
                    t3       == TapeSeek(t2, segment.start + offset)
                    t4       == TapeWrite(t3, data)
                    t5       == RestorePosition(t4, old_pos)
                IN  [st |-> [st EXCEPT !.tape = t5], ok |-> ~Faulted(t5)]

----------------------------------------------------------------------------
(* Machine words: i64 values and their little-endian bytes *)

RECURSIVE Pow256(_)
Pow256(n) == IF n = 0 THEN 1 ELSE 256 * Pow256(n - 1)

\* i64::to_le_bytes: two's complement, least significant byte first
ToLeBytes(v) == [i \in 1..WordBytes |-> (v \div Pow256(i - 1)) % 256]

RECURSIVE LowBytesValue(_, _)
LowBytesValue(b, n) == IF n = 0 THEN 0 ELSE LowBytesValue(b, n - 1) + b[n] * Pow256(n - 1)

\* the bytes read as an unsigned number
FromLeBytesUnsigned(b) == LowBytesValue(b, WordBytes)

\* i64::from_le_bytes: the top byte carries the sign
FromLeBytes(b) ==
    LowBytesValue(b, WordBytes - 1)
        + (IF b[WordBytes] >= 128 THEN b[WordBytes] - 256 ELSE b[WordBytes]) * Pow256(WordBytes - 1)

\* i64::MAX and i64::MIN at the width of the model
MaxWord == FromLeBytes([i \in 1..WordBytes |-> IF i = WordBytes THEN 127 ELSE 255])

MinWord == -MaxWord - 1

\* i64::saturating_add
SaturatingAdd(a, b) ==
    IF b > 0 /\ a > MaxWord - b THEN MaxWord
    ELSE IF b < 0 /\ a < MinWord - b THEN MinWord
    ELSE a + b

RECURSIVE AddWithCarry(_, _, _, _)
AddWithCarry(x, y, i, carry) ==
    IF i > WordBytes THEN <<>>
    ELSE LET sum == x[i] + y[i] + carry
         IN  <<sum % 256>> \o AddWithCarry(x, y, i + 1, sum \div 256)

\* i64::wrapping_add
WrappingAdd(a, b) == FromLeBytes(AddWithCarry(ToLeBytes(a), ToLeBytes(b), 1, 0))

\* i64::wrapping_sub: a + !b + 1
WrappingSub(a, b) ==
    FromLeBytes(AddWithCarry(ToLeBytes(a), [i \in 1..WordBytes |-> 255 - ToLeBytes(b)[i]], 1, 1))

RECURSIVE ColumnSum(_, _, _, _)
ColumnSum(x, y, k, i) == IF i > k THEN 0 ELSE x[i] * y[k + 1 - i] + ColumnSum(x, y, k, i + 1)

RECURSIVE MulColumns(_, _, _, _)
MulColumns(x, y, k, carry) ==
    IF k > WordBytes THEN <<>>
    ELSE LET sum == ColumnSum(x, y, k, 1) + carry
         IN  <<sum % 256>> \o MulColumns(x, y, k + 1, sum \div 256)

\* i64::wrapping_mul: the low word of the product
WrappingMul(a, b) == FromLeBytes(MulColumns(ToLeBytes(a), ToLeBytes(b), 1, 0))

RECURSIVE XorBits(_, _, _)
XorBits(a, b, n) ==
    IF n = 0 THEN 0
    ELSE (((a % 2) + (b % 2)) % 2) + 2 * XorBits(a \div 2, b \div 2, n - 1)

\* i64 `^`
BitXor(a, b) == FromLeBytes([i \in 1..WordBytes |-> XorBits(ToLeBytes(a)[i], ToLeBytes(b)[i], 8)])

----------------------------------------------------------------------------
(* RegisterFile *)

FlagsDefault == [zero |-> FALSE, carry |-> FALSE, overflow |-> FALSE, negative |-> FALSE]

RegisterFileNew == [general |-> [i \in 0..(NUM_REGISTERS - 1) |-> 0], flags |-> FlagsDefault]

\* RegisterFile::read: Result<i64, String>
RegRead(rf, reg) ==
    IF reg < NUM_REGISTERS THEN [ok |-> TRUE, value |-> rf.general[reg]]
    ELSE [ok |-> FALSE, value |-> 0]

\* a write that takes the id 16 for a register
RegWriteInclusive(rf, reg, value) ==
    IF reg <= NUM_REGISTERS
    THEN [ok |-> TRUE, rf |-> [rf EXCEPT !.general = [i \in DOMAIN @ |-> IF i = reg THEN value ELSE @[i]]]]
    ELSE [ok |-> FALSE, rf |-> rf]

\* RegisterFile::write: Result<(), String>
RegWrite(rf, reg, value) ==
    IF reg < NUM_REGISTERS THEN [ok |-> TRUE, rf |-> [rf EXCEPT !.general[reg] = value]]
    ELSE [ok |-> FALSE, rf |-> rf]

UpdateFlags(rf, value) == [rf EXCEPT !.flags.zero = (value = 0), !.flags.negative = (value < 0)]

----------------------------------------------------------------------------
(* VM *)

ExecutionHistoryNew == [stack |-> <<>>, checkpoints |-> EmptyMap]

\* VM::new: the three standard segments, then the registers and pointers;
\* `order` is the order in which the map of two segments is iterated when
\* the third is placed
VMNewIn(symbols, order) ==
    LET s0 == SegmentedTapeNew
        s1 == CreateSegment(s0, "code", SEGMENT_SIZE, "Code", <<>>).st
        s2 == CreateSegment(s1, "stack", SEGMENT_SIZE, "Stack", <<"code">>).st
        s3 == CreateSegment(s2, "heap", SEGMENT_SIZE, "Heap", order).st
    IN  [tape      |-> s3,
         registers |-> RegisterFileNew,
         ip        |-> 0,
         sp        |-> SEGMENT_SIZE,
         fp        |-> SEGMENT_SIZE,
         history   |-> ExecutionHistoryNew,
         timelines |-> EmptyMap,
         current_timeline |-> "main",
         symbols   |-> symbols]

VMNew(symbols) == VMNewIn(symbols, <<"code", "stack">>)

\* Instruction::is_stateful
IsStateful(instruction) ==
    instruction.op \notin {"Nop", "Debug", "Compare", "Equal", "LessThan"}

\* a frame kept only for the instructions that change state
SaveHistoryFrameIfStateful(v, instruction) ==
    IF IsStateful(instruction)
    THEN [v EXCEPT !.history.stack =
              Append(@, [instruction      |-> instruction,
                         registers_before |-> v.registers,
                         ip_before        |-> v.ip,
                         sp_before        |-> v.sp,
                         fp_before        |-> v.fp,
                         tape_trail_len   |-> TrailLen(v.tape.tape)])]
    ELSE v

\* VM::load_program: only the instruction count is stored
LoadProgram(v, instructions) ==
    [v EXCEPT !.symbols = MapPut(@, "__program_size__", Len(instructions))]

\* VM::save_history_frame
SaveHistoryFrame(v, instruction) ==
    LET frame == [instruction      |-> instruction,
                  registers_before |-> v.registers,
                  ip_before        |-> v.ip,
                  sp_before        |-> v.sp,
                  fp_before        |-> v.fp,
                  tape_trail_len   |-> TrailLen(v.tape.tape)]
    IN  [v EXCEPT !.history.stack = Append(@, frame)]

\* a resolution that asks the tape's marks before the symbol table
ResolveLabelMarksFirst(v, label) ==
    IF label \in DOMAIN v.tape.tape.marks
    THEN [ok |-> TRUE, value |-> v.tape.tape.marks[label]]
    ELSE IF label \in DOMAIN v.symbols THEN [ok |-> TRUE, value |-> v.symbols[label]]
         ELSE [ok |-> FALSE, value |-> 0]

\* VM::resolve_label: the symbol table first, then the tape's marks
ResolveLabel(v, label) ==
    IF label \in DOMAIN v.symbols THEN [ok |-> TRUE, value |-> v.symbols[label]]
    ELSE IF label \in DOMAIN v.tape.tape.marks
         THEN [ok |-> TRUE, value |-> v.tape.tape.marks[label]]
         ELSE [ok |-> FALSE, value |-> 0]

\* the value a method returns: "ok" for Ok(()), "err" for Err(message),
\* "halt" for Err("HALT"); a panic or a loop that does not end replaces it
Ret(v, res) == [vm |-> v, res |-> IF Faulted(v.tape.tape) THEN v.tape.tape.fault ELSE res]

\* the tape put into a SegmentedTape without segments
WithTapeOnly(v, t) == [v EXCEPT !.tape = [tape |-> t, segments |-> EmptyMap]]

WithTape(v, t) == [v EXCEPT !.tape.tape = t]

\* an empty history answered by a reset of the instruction pointer
NoFrameRestart(v) == Ret([v EXCEPT !.ip = 0, !.history.checkpoints = EmptyMap], "ok")

\* reverse_last with nothing to pop: Err("No operations to reverse")
NoFrame(v) == Ret(v, "err")

\* VM::reverse_last.  `trail_len() - frame.tape_trail_len` is a usize
\* subtraction: when the trail is shorter than the frame recorded, a debug
\* build panics there; a release build wraps to a count near 2^64, and
\* rewind_n empties the trail and keeps iterating.
ReverseLast(v) ==
    IF Faulted(v.tape.tape) THEN Ret(v, "err")
    ELSE IF Len(v.history.stack) = 0 THEN NoFrame(v)
    ELSE
        LET stack == v.history.stack
            frame == stack[Len(stack)]
            v1    == [v EXCEPT !.history.stack = SubSeq(stack, 1, Len(stack) - 1),
                               !.registers = frame.registers_before,
                               !.ip = frame.ip_before,
                               !.sp = frame.sp_before,
                               !.fp = frame.fp_before]
            t     == v1.tape.tape
        IN  IF TrailLen(t) < frame.tape_trail_len
            THEN IF build = "debug"
                 THEN Ret(WithTape(v1, [t EXCEPT !.fault = "panic"]), "ok")
                 ELSE LET t2 == TapeRewindN(t, TrailLen(t))
                      IN  Ret(WithTape(v1, [t2 EXCEPT !.fault = IF Faulted(t2) THEN @ ELSE "hang"]),
                              "ok")
            ELSE Ret(WithTape(v1, TapeRewindN(t, TrailLen(t) - frame.tape_trail_len)), "ok")

\* for _ in 0..n { self.reverse_last()?; }
RECURSIVE ReverseTimes(_, _)
ReverseTimes(v, n) ==
    IF n = 0 THEN Ret(v, "ok")
    ELSE LET r == ReverseLast(v)
         IN  IF r.res # "ok" THEN r ELSE ReverseTimes(r.vm, n - 1)

----------------------------------------------------------------------------
(* VM::execute *)

VSeek(v, pos) == WithTape(v, TapeSeek(v.tape.tape, pos))

VWrite(v, data) == WithTape(v, TapeWrite(v.tape.tape, data))

\* i64::from_le_bytes(self.tape.tape.read(8).try_into()...): read returns
\* exactly the bytes asked for, so the conversion cannot fail
VReadWord(v) ==
    LET t == v.tape.tape
        r == TapeRead(t, WordBytes)
    IN  IF Faulted(t) THEN [vm |-> v, value |-> 0]
        ELSE IF r.fault # "none"
             THEN [vm |-> WithTape(v, [t EXCEPT !.fault = r.fault]), value |-> 0]
             ELSE [vm |-> v, value |-> FromLeBytes(r.data)]

\* the end of the match: self.ip += 1; Ok(())
Done(v) == IF Faulted(v.tape.tape) THEN Ret(v, "ok") ELSE Ret([v EXCEPT !.ip = @ + 1], "ok")

CompareResult(val1, val2) == IF val1 < val2 THEN -1 ELSE IF val1 > val2 THEN 1 ELSE 0

EqualResult(val1, val2) == IF val1 = val2 THEN 1 ELSE 0

LessThanResult(val1, val2) == IF val1 < val2 THEN 1 ELSE 0

\* what each three-register arm stores in dst
ResultOf(op, val1, val2) ==
    CASE op = "IAdd" -> WrappingAdd(val1, val2)
      [] op = "ISub" -> WrappingSub(val1, val2)
      [] op = "IMul" -> WrappingMul(val1, val2)
      [] op = "IXor" -> BitXor(val1, val2)
      [] op = "Compare" -> CompareResult(val1, val2)
      [] op = "Equal" -> EqualResult(val1, val2)
      [] op = "LessThan" -> LessThanResult(val1, val2)

\* the arms `dst = f(src1, src2)` followed by update_flags
ThreeRegisters(v, inst) ==
    LET val1 == RegRead(v.registers, inst.src1)
        val2 == RegRead(v.registers, inst.src2)
    IN  IF ~val1.ok \/ ~val2.ok THEN Ret(v, "err")
        ELSE LET result == ResultOf(inst.op, val1.value, val2.value)
                 w      == RegWrite(v.registers, inst.dst, result)
             IN  IF ~w.ok THEN Ret(v, "err")
                 ELSE Done([v EXCEPT !.registers = UpdateFlags(w.rf, result)])

ExecLoad(v, inst) ==
    LET address == RegRead(v.registers, inst.addr)
    IN  IF ~address.ok THEN Ret(v, "err")
        ELSE LET r == VReadWord(VSeek(v, address.value))
                 w == RegWrite(r.vm.registers, inst.reg, r.value)
             IN  IF Faulted(r.vm.tape.tape) THEN Ret(r.vm, "ok")
                 ELSE IF ~w.ok THEN Ret(r.vm, "err")
                 ELSE Done([r.vm EXCEPT !.registers = w.rf])

ExecStore(v, inst) ==
    LET address == RegRead(v.registers, inst.addr)
        value   == RegRead(v.registers, inst.reg)
    IN  IF ~address.ok \/ ~value.ok THEN Ret(v, "err")
        ELSE Done(VWrite(VSeek(v, address.value), ToLeBytes(value.value)))

ExecPush(v, inst) ==
    LET v1    == [v EXCEPT !.sp = @ - WordBytes]
        v2    == VSeek(v1, v1.sp)
        value == RegRead(v2.registers, inst.reg)
    IN  IF ~value.ok THEN Ret(v2, "err")
        ELSE Done(VWrite(v2, ToLeBytes(value.value)))

ExecPop(v, inst) ==
    LET r == VReadWord(VSeek(v, v.sp))
        w == RegWrite(r.vm.registers, inst.reg, r.value)
    IN  IF Faulted(r.vm.tape.tape) THEN Ret(r.vm, "ok")
        ELSE IF ~w.ok THEN Ret(r.vm, "err")
        ELSE Done([r.vm EXCEPT !.registers = w.rf, !.sp = @ + WordBytes])

\* a read that moves the head past the bytes it returned
ExecTapeReadAdvancing(v, inst) ==
    LET t        == v.tape.tape
        data     == TapeRead(t, inst.len)
        copy_len == Min(inst.len, WordBytes)
        bytes    == [i \in 1..WordBytes |-> IF i <= copy_len THEN data.data[i] ELSE 0]
        w        == RegWrite(v.registers, inst.reg, FromLeBytes(bytes))
    IN  IF data.fault # "none" THEN Ret(WithTape(v, [t EXCEPT !.fault = data.fault]), "ok")
        ELSE IF ~w.ok THEN Ret(v, "err")
        ELSE Done(WithTape([v EXCEPT !.registers = w.rf], TapeAdvance(t, inst.len)))

ExecTapeRead(v, inst) ==
    LET t        == v.tape.tape
        data     == TapeRead(t, inst.len)
        copy_len == Min(inst.len, WordBytes)
        bytes    == [i \in 1..WordBytes |-> IF i <= copy_len THEN data.data[i] ELSE 0]
        w        == RegWrite(v.registers, inst.reg, FromLeBytes(bytes))
    IN  IF data.fault # "none" THEN Ret(WithTape(v, [t EXCEPT !.fault = data.fault]), "ok")
        ELSE IF ~w.ok THEN Ret(v, "err")
        ELSE Done([v EXCEPT !.registers = w.rf])

ExecTapeWrite(v, inst) ==
    LET value == RegRead(v.registers, inst.reg)
    IN  IF ~value.ok THEN Ret(v, "err")
        ELSE Done(VWrite(v, SubSeq(ToLeBytes(value.value), 1, Min(inst.len, WordBytes))))

ExecTapeSeekReg(v, inst) ==
    LET position == RegRead(v.registers, inst.reg)
    IN  IF ~position.ok THEN Ret(v, "err") ELSE Done(VSeek(v, position.value))

ExecTapeSeekMark(v, inst) ==
    LET r == TapeSeekMark(v.tape.tape, inst.label)
    IN  IF ~r.ok THEN Ret(v, "err") ELSE Done(WithTape(v, r.t))

\* self.ip = self.resolve_label(&label)?; return Ok(())
JumpTo(v, label) ==
    LET target == ResolveLabel(v, label)
    IN  IF ~target.ok THEN Ret(v, "err") ELSE Ret([v EXCEPT !.ip = target.value], "ok")

\* a branch that resolves its label before it tests the register
ExecBranchResolvingFirst(v, inst, zero) ==
    LET value  == RegRead(v.registers, inst.reg)
        target == ResolveLabel(v, inst.label)
    IN  IF ~value.ok \/ ~target.ok THEN Ret(v, "err")
        ELSE IF (value.value = 0) = zero THEN JumpTo(v, inst.label)
        ELSE Done(v)

\* BranchZero (zero = TRUE) and BranchNotZero (zero = FALSE)
ExecBranch(v, inst, zero) ==
    LET value == RegRead(v.registers, inst.reg)
    IN  IF ~value.ok THEN Ret(v, "err")
        ELSE IF (value.value = 0) = zero THEN JumpTo(v, inst.label)
        ELSE Done(v)

\* a call that saves the index of the Call itself as return address
ExecCallSavingIp(v, inst) ==
    LET v1 == [v EXCEPT !.sp = @ - WordBytes]
        v2 == VWrite(VSeek(v1, v1.sp), ToLeBytes(v1.ip))
        v3 == [v2 EXCEPT !.sp = @ - WordBytes]
        v4 == VWrite(VSeek(v3, v3.sp), ToLeBytes(v3.fp))
        v5 == [v4 EXCEPT !.fp = v4.sp]
    IN  IF Faulted(v4.tape.tape) THEN Ret(v4, "ok") ELSE JumpTo(v5, inst.label)

ExecCall(v, inst) ==
    LET v1 == [v EXCEPT !.sp = @ - WordBytes]
        v2 == VWrite(VSeek(v1, v1.sp), ToLeBytes(v1.ip + 1))
        v3 == [v2 EXCEPT !.sp = @ - WordBytes]
        v4 == VWrite(VSeek(v3, v3.sp), ToLeBytes(v3.fp))
        v5 == [v4 EXCEPT !.fp = v4.sp]
    IN  IF Faulted(v4.tape.tape) THEN Ret(v4, "ok") ELSE JumpTo(v5, inst.label)

ExecReturn(v) ==
    LET r1 == VReadWord(VSeek(v, v.fp))
        v1 == [r1.vm EXCEPT !.fp = r1.value, !.sp = @ + WordBytes]
        r2 == VReadWord(VSeek(v1, v1.sp))
        v2 == [r2.vm EXCEPT !.ip = r2.value, !.sp = @ + WordBytes]
    IN  IF Faulted(r1.vm.tape.tape) THEN Ret(r1.vm, "ok")
        ELSE IF Faulted(r2.vm.tape.tape) THEN Ret(r2.vm, "ok")
        ELSE Ret(v2, "ok")

ExecCheckpoint(v, inst) ==
    Done([WithTape(v, TapeCheckpoint(v.tape.tape, inst.label))
             EXCEPT !.history.checkpoints = MapPut(@, inst.label, Len(v.history.stack))])

\* Rewind: the frame the registers come from is the one left on top after
\* the stack is cut back to the depth the checkpoint recorded
ExecRewind(v, inst) ==
    LET r == TapeRewind(v.tape.tape, inst.label)
        v1 == WithTape(v, r.t)
    IN  IF ~r.ok THEN Ret(v1, "err")
        ELSE IF inst.label \notin DOMAIN v1.history.checkpoints THEN Ret(v1, "ok")
        ELSE
            LET checkpoint_pos == v1.history.checkpoints[inst.label]
                stack == IF Len(v1.history.stack) > checkpoint_pos
                         THEN SubSeq(v1.history.stack, 1, checkpoint_pos)
                         ELSE v1.history.stack
                v2    == [v1 EXCEPT !.history.stack = stack]
            IN  IF Len(stack) = 0 THEN Ret(v2, "ok")
                ELSE LET frame == stack[Len(stack)]
                     IN  Ret([v2 EXCEPT !.registers = frame.registers_before,
                                        !.ip = frame.ip_before,
                                        !.sp = frame.sp_before,
                                        !.fp = frame.fp_before], "ok")

\* RewindN: `read(steps)? as usize` turns a negative count into one of at
\* least 2^63; a count above the history depth ends in reverse_last's error
ExecRewindN(v, inst) ==
    LET n == RegRead(v.registers, inst.steps)
    IN  IF ~n.ok THEN Ret(v, "err")
        ELSE ReverseTimes(v, IF n.value < 0 \/ n.value > Len(v.history.stack)
                             THEN Len(v.history.stack) + 1
                             ELSE n.value)

ExecLoadImm(v, inst) ==
    LET w == RegWrite(v.registers, inst.reg, inst.value)
    IN  IF ~w.ok THEN Ret(v, "err") ELSE Done([v EXCEPT !.registers = w.rf])

Execute(v0, inst) ==
    IF Faulted(v0.tape.tape) THEN Ret(v0, "err")
    ELSE
        LET v == SaveHistoryFrame(v0, inst)
        IN  CASE inst.op = "IAdd" -> ThreeRegisters(v, inst)
              [] inst.op = "ISub" -> ThreeRegisters(v, inst)
              [] inst.op = "IMul" -> ThreeRegisters(v, inst)
              [] inst.op = "IXor" -> ThreeRegisters(v, inst)
              [] inst.op = "Load" -> ExecLoad(v, inst)
              [] inst.op = "Store" -> ExecStore(v, inst)
              [] inst.op = "Push" -> ExecPush(v, inst)
              [] inst.op = "Pop" -> ExecPop(v, inst)
              [] inst.op = "TapeRead" -> ExecTapeRead(v, inst)
              [] inst.op = "TapeWrite" -> ExecTapeWrite(v, inst)
              [] inst.op = "TapeSeek" -> Done(VSeek(v, inst.position))
              [] inst.op = "TapeSeekReg" -> ExecTapeSeekReg(v, inst)
              [] inst.op = "TapeAdvance" -> Done(WithTape(v, TapeAdvance(v.tape.tape, inst.delta)))
              [] inst.op = "TapeMark" -> Done(WithTape(v, TapeMark(v.tape.tape, inst.label)))
              [] inst.op = "TapeSeekMark" -> ExecTapeSeekMark(v, inst)
              [] inst.op = "Jump" -> JumpTo(v, inst.label)
              [] inst.op = "BranchZero" -> ExecBranch(v, inst, TRUE)
              [] inst.op = "BranchNotZero" -> ExecBranch(v, inst, FALSE)
              [] inst.op = "Call" -> ExecCall(v, inst)
              [] inst.op = "Return" -> ExecReturn(v)
              [] inst.op = "Checkpoint" -> ExecCheckpoint(v, inst)
              [] inst.op = "Rewind" -> ExecRewind(v, inst)
              [] inst.op = "RewindN" -> ExecRewindN(v, inst)
              [] inst.op = "LoadImm" -> ExecLoadImm(v, inst)
              [] inst.op = "Compare" -> ThreeRegisters(v, inst)
              [] inst.op = "Equal" -> ThreeRegisters(v, inst)
              [] inst.op = "LessThan" -> ThreeRegisters(v, inst)
              [] inst.op = "Halt" -> Ret(v, "halt")
              [] inst.op = "Nop" -> Done(v)
              [] inst.op = "Debug" -> Done(v)
              [] OTHER -> Ret(v, "err")

\* what a client of the VM can observe
VMObs(v) ==
    [general   |-> v.registers.general,
     flags     |-> v.registers.flags,
     ip        |-> v.ip,
     sp        |-> v.sp,
     fp        |-> v.fp,
     head      |-> v.tape.tape.head,
     bytes     |-> TapeBytes(v.tape.tape),
     marks     |-> v.tape.tape.marks,
     trail_len |-> TrailLen(v.tape.tape)]

----------------------------------------------------------------------------
(* Calls on a stand-alone Tape *)

SeekPositions == {-1, 4095, 4096}

AdvanceDeltas == {-1, 1}

WriteData == {<<7>>, <<1, 2>>}

Labels == {"a"}

CheckpointNames == {"c"}

ReadLens == {1, 2}

RewindCounts == {1, 2}

\* the snapshots kept per trail entry, after a call took the tape from t to t2
SnapsAfter(s, t, t2) ==
    IF TrailLen(t2) >= Len(s)
    THEN s \o [i \in 1..(TrailLen(t2) - Len(s)) |-> TapeObs(t)]
    ELSE SubSeq(s, 1, TrailLen(t2))

\* the bytes an undo of the trail entries above `keep` stores, newest first
RECURSIVE UndoneWrites(_, _, _)
UndoneWrites(w, ops, keep) ==
    IF Len(ops) <= keep THEN w
    ELSE LET op == ops[Len(ops)]
         IN  UndoneWrites(IF op.op = "Write" THEN Overlay(w, op.pos, op.old) ELSE w,
                          SubSeq(ops, 1, Len(ops) - 1), keep)

\* a call that is neither checkpoint nor rewind: `plain` tells whether it is
\* one of write, seek, advance, mark
CpAfter(plain) == [n \in DOMAIN cpsnap |-> [cpsnap[n] EXCEPT !.plain = @ /\ plain]]

TapeCall(op, arg, t2, ok, ret, w2, cp2) ==
    /\ budget > 0
    /\ ~Faulted(tape)
    /\ tape' = t2
    /\ last' = [op |-> op, arg |-> arg, ok |-> ok, ret |-> ret, pre |-> tape,
                expect |-> IF op = "rewind_n" /\ arg >= 1 /\ arg <= TrailLen(tape)
                           THEN snaps[TrailLen(tape) - arg + 1]
                           ELSE TapeObs(tape),
                cp |-> cpsnap]
    /\ budget' = budget - 1
    /\ snaps' = SnapsAfter(snaps, tape, t2)
    /\ written' = w2
    /\ cpsnap' = cp2
    /\ UNCHANGED <<build, stape, vm, run, runner>>

T_read(lens) ==
    \E len \in lens :
        LET r == TapeRead(tape, len)
        IN  TapeCall("read", len, [tape EXCEPT !.fault = r.fault], r.fault = "none", r.data,
                     written, cpsnap)

T_write(datas) ==
    \E data \in datas :
        LET t2 == TapeWrite(tape, data)
        IN  TapeCall("write", data, t2, ~Faulted(t2), <<>>,
                     Overlay(written, tape.head, data), CpAfter(TRUE))

T_seek(positions) ==
    \E pos \in positions :
        TapeCall("seek", pos, TapeSeek(tape, pos), TRUE, <<>>, written, CpAfter(TRUE))

T_advance(deltas) ==
    \E delta \in deltas :
        TapeCall("advance", delta, TapeAdvance(tape, delta), TRUE, <<>>, written, CpAfter(TRUE))

T_mark(labels) ==
    \E label \in labels :
        TapeCall("mark", label, TapeMark(tape, label), TRUE, <<>>, written, CpAfter(TRUE))

T_seek_mark(labels) ==
    \E label \in labels :
        LET r == TapeSeekMark(tape, label)
        IN  TapeCall("seek_mark", label, r.t, r.ok, <<>>, written, CpAfter(FALSE))

T_checkpoint(names) ==
    \E name \in names :
        TapeCall("checkpoint", name, TapeCheckpoint(tape, name), TRUE, <<>>, written,
                 MapPut(cpsnap, name, [obs |-> TapeObs(tape), plain |-> TRUE]))

T_rewind(names) ==
    \E name \in names :
        LET r == TapeRewind(tape, name)
        IN  TapeCall("rewind", name, r.t, r.ok, <<>>,
                     UndoneWrites(written, tape.trail.operations, TrailLen(r.t)),
                     CpAfter(FALSE))

T_rewind_n(counts) ==
    \E n \in counts :
        LET t2 == TapeRewindN(tape, n)
        IN  TapeCall("rewind_n", n, t2, ~Faulted(t2), <<>>,
                     UndoneWrites(written, tape.trail.operations, TrailLen(t2)),
                     CpAfter(FALSE))

NoCall == [op |-> "new"]

NoRun == [n |-> 0, ok |-> TRUE, revs |-> 0, mixed |-> FALSE]

\* the labels the loaded program defines (parser labels copied into vm.symbols)
Symbols == ("fn" :> 2)

\* no program is being run
NoRunner == [instructions |-> <<>>, halted |-> FALSE, instruction_count |-> 0, pc |-> "done"]

\* everything but the VM and the runner, in either build, with n calls to make
InitObjects(n) ==
    /\ build \in {"debug", "release"}
    /\ tape = TapeNew
    /\ stape = SegmentedTapeNew
    /\ last = NoCall
    /\ budget = n
    /\ snaps = <<>>
    /\ written = EmptyMap
    /\ cpsnap = EmptyMap
    /\ run = NoRun

\* the objects as constructed, in either build, with n calls to make
InitWith(n) ==
    /\ InitObjects(n)
    /\ vm \in {VMNewIn(Symbols, order) : order \in IterationOrders({"code", "stack"})}
    /\ runner = NoRunner

\* Tape::new()
InitTape == InitWith(MaxTapeOps)

NextTape ==
    \/ T_read(ReadLens)
    \/ T_write(WriteData)
    \/ T_seek(SeekPositions)
    \/ T_advance(AdvanceDeltas)
    \/ T_mark(Labels)
    \/ T_seek_mark(Labels)
    \/ T_checkpoint(CheckpointNames)
    \/ T_rewind(CheckpointNames)
    \/ T_rewind_n(RewindCounts)

SpecTape == InitTape /\ [][NextTape]_vars


(* A tape that is check-pointed, written and rewound across a page boundary *)

MaxCpOps == 6

CpSeekPositions == {4095, 4096}

CpWriteData == {<<1, 2>>}

CpAdvanceDeltas == {1}

InitCheckpoint == InitWith(MaxCpOps)

NextCheckpoint ==
    \/ T_write(CpWriteData)
    \/ T_seek(CpSeekPositions)
    \/ T_advance(CpAdvanceDeltas)
    \/ T_mark(Labels)
    \/ T_checkpoint(CheckpointNames)
    \/ T_rewind(CheckpointNames)

SpecCheckpoint == InitCheckpoint /\ [][NextCheckpoint]_vars

----------------------------------------------------------------------------
(* Calls on a stand-alone SegmentedTape *)

SegmentNames == {"a", "b", "c"}

SegmentSizes == {0, 10}

SegmentTypes == {"Data"}

SegmentOffsets == {0, 9}

SegmentData == {<<7>>, <<1, 2>>}

MaxSegOps == 4

SegCall(op, arg, st2, ok, ret) ==
    /\ budget > 0
    /\ ~Faulted(stape.tape)
    /\ stape' = st2
    /\ last' = [op |-> op, arg |-> arg, ok |-> ok, ret |-> ret, pre |-> stape,
                prev |-> IF last.op = "new"
                         THEN [op |-> "new", ok |-> TRUE]
                         ELSE [op |-> last.op, ok |-> last.ok, arg |-> last.arg,
                               trail |-> TrailLen(last.pre.tape),
                               obs |-> TapeObs(last.pre.tape)]]
    /\ budget' = budget - 1
    /\ UNCHANGED <<build, tape, vm, snaps, written, cpsnap, run, runner>>

S_create(names, sizes) ==
    \E name \in names, size \in sizes, ty \in SegmentTypes :
        \E order \in IterationOrders(DOMAIN stape.segments) :
            LET r == CreateSegment(stape, name, size, ty, order)
            IN  SegCall("create_segment", [name |-> name, size |-> size], r.st, r.ok, r.start)

S_create_segment == S_create(SegmentNames, SegmentSizes)

S_read(names, offsets, lens) ==
    \E name \in names, offset \in offsets, len \in lens :
        LET r == ReadSegment(stape, name, offset, len)
        IN  SegCall("read_segment", [name |-> name, offset |-> offset, len |-> len],
                    [stape EXCEPT !.tape.fault = r.fault], r.ok, r.data)

S_read_segment == S_read({"a"}, SegmentOffsets, ReadLens)

S_write(names, offsets, datas) ==
    \E name \in names, offset \in offsets, data \in datas :
        LET r == WriteSegment(stape, name, offset, data)
        IN  SegCall("write_segment", [name |-> name, offset |-> offset, data |-> data],
                    r.st, r.ok, <<>>)

S_write_segment == S_write({"a"}, SegmentOffsets, SegmentData)

\* calls on the public field `tape` of the SegmentedTape
S_tape_seek(positions) ==
    \E pos \in positions :
        SegCall("tape.seek", pos, [stape EXCEPT !.tape = TapeSeek(stape.tape, pos)], TRUE, <<>>)

S_tape_checkpoint(names) ==
    \E name \in names :
        SegCall("tape.checkpoint", name,
                [stape EXCEPT !.tape = TapeCheckpoint(stape.tape, name)], TRUE, <<>>)

S_tape_rewind(names) ==
    \E name \in names :
        LET r == TapeRewind(stape.tape, name)
        IN  SegCall("tape.rewind", name, [stape EXCEPT !.tape = r.t], r.ok, <<>>)

S_tape_rewind_n(counts) ==
    \E n \in counts :
        LET t2 == TapeRewindN(stape.tape, n)
        IN  SegCall("tape.rewind_n", n, [stape EXCEPT !.tape = t2], ~Faulted(t2), <<>>)

\* SegmentedTape::new()
InitSeg == InitWith(MaxSegOps)

NextSeg ==
    \/ S_create_segment
    \/ S_read_segment
    \/ S_write_segment

SpecSeg == InitSeg /\ [][NextSeg]_vars

\* C10: every segment start is non-negative and no two distinct segments
\* overlap: A.start + A.size <= B.start or B.start + B.size <= A.start.
C10_SegmentsNeverOverlap ==
    \A a \in DOMAIN stape.segments :
        /\ stape.segments[a].start >= 0
        /\ \A b \in DOMAIN stape.segments \ {a} :
              \/ stape.segments[a].start + stape.segments[a].size <= stape.segments[b].start
              \/ stape.segments[b].start + stape.segments[b].size <= stape.segments[a].start

\* C14: create_segment with a name that already exists returns an error and
\* leaves the segment map and the trail unchanged.
C14_DuplicateNameRefused ==
    (last.op = "create_segment" /\ last.arg.name \in DOMAIN last.pre.segments)
        => (~last.ok /\ stape = last.pre)

\* a refused create_segment whose size differs from the existing segment's
C14_Witness ==
    /\ last.op = "create_segment" /\ ~last.ok
    /\ last.arg.name \in DOMAIN stape.segments
    /\ stape.segments[last.arg.name].size # last.arg.size

----------------------------------------------------------------------------
(* A segment that spans a page boundary, read, written and rewound *)

MaxSegIOOps == 4

IOSizes == {4100}

IOOffsets == {-1, 4095, 4096, 4098, 4099}

IOData == {<<1, 2>>}

IOLens == {2}

IOSeekPositions == {3}

\* 1 undoes one entry, 5 all the entries of one write_segment
IORewindCounts == {1, 5}

InitSegIO == InitWith(MaxSegIOOps)

NextSegIO ==
    \/ S_create({"a"}, IOSizes)
    \/ S_read({"a"}, IOOffsets, IOLens)
    \/ S_write({"a"}, IOOffsets, IOData)
    \/ S_tape_seek(IOSeekPositions)
    \/ S_tape_checkpoint(CheckpointNames)
    \/ S_tape_rewind(CheckpointNames)
    \/ S_tape_rewind_n(IORewindCounts)

SpecSegIO == InitSegIO /\ [][NextSegIO]_vars

\* the SegmentCreate entries of `ops` above position `keep`
CreatedAbove(ops, keep) ==
    {ops[i].name : i \in {j \in DOMAIN ops : j > keep /\ ops[j].op = "SegmentCreate"}}

\* C11: once a SegmentCreate trail entry has been undone, by rewind_n or by
\* rewind to a checkpoint taken before the create_segment call, the segment
\* map no longer holds the named segment.
C11_UndoneCreateRemovesSegment ==
    (last.op \in {"tape.rewind_n", "tape.rewind"} /\ last.ok)
        => \A name \in CreatedAbove(last.pre.tape.trail.operations, TrailLen(stape.tape)) :
               name \notin DOMAIN stape.segments

\* C13: read_segment and write_segment with offset < 0 or offset + len
\* beyond the segment's size return an error and change nothing (trail,
\* bytes, head, marks, segment map); a write that ends exactly at the
\* segment's size succeeds.
C13_SegmentBoundsChecked ==
    (last.op \in {"read_segment", "write_segment"} /\ last.arg.name \in DOMAIN last.pre.segments)
        => LET size == last.pre.segments[last.arg.name].size
               len  == IF last.op = "read_segment" THEN last.arg.len ELSE Len(last.arg.data)
           IN  /\ (last.arg.offset < 0 \/ last.arg.offset + len > size)
                      => (~last.ok /\ stape = last.pre)
               /\ (last.op = "write_segment" /\ last.arg.offset >= 0
                       /\ last.arg.offset + len = size) => last.ok

\* a write ending exactly at the segment's end succeeded right after a call
\* beyond the end was refused
C13_Witness ==
    /\ last.op = "write_segment" /\ last.ok
    /\ last.arg.offset + Len(last.arg.data) = last.pre.segments[last.arg.name].size
    /\ last.prev.op \in {"read_segment", "write_segment"} /\ ~last.prev.ok
    /\ last.prev.arg.offset = 4099

\* C15: after a successful write_segment that appended m trail entries,
\* rewind_n(m) on the underlying tape restores every byte and the head to
\* their values before the write_segment.
C15_WriteSegmentRewindSafe ==
    (last.op = "tape.rewind_n" /\ last.prev.op = "write_segment" /\ last.prev.ok
        /\ last.arg = TrailLen(last.pre.tape) - last.prev.trail)
        => /\ ~Faulted(stape.tape)
           /\ stape.tape.head = last.prev.obs.head
           /\ TapeBytes(stape.tape) = last.prev.obs.bytes

\* C16: a successful write_segment leaves the head where it was; read_segment
\* changes nothing; read_segment right after write_segment at the same
\* segment and offset returns the written bytes.
C16_SegmentIOKeepsHead ==
    /\ (last.op = "write_segment" /\ last.ok) => stape.tape.head = last.pre.tape.head
    /\ last.op = "read_segment" => stape = last.pre
    /\ (last.op = "read_segment" /\ last.prev.op = "write_segment" /\ last.prev.ok
           /\ last.prev.arg.name = last.arg.name /\ last.prev.arg.offset = last.arg.offset
           /\ Len(last.prev.arg.data) = last.arg.len)
           => (last.ok /\ last.ret = last.prev.arg.data)

\* a read across the page boundary returning what was just written there,
\* the head standing elsewhere
C16_Witness ==
    /\ last.op = "read_segment" /\ last.ok
    /\ last.prev.op = "write_segment" /\ last.prev.ok
    /\ last.arg.offset = 4095 /\ last.prev.arg.offset = 4095
    /\ last.ret = <<1, 2>>
    /\ stape.tape.head = 3

----------------------------------------------------------------------------
(* Calls on the VM *)

I3(op, dst, src1, src2) == [op |-> op, dst |-> dst, src1 |-> src1, src2 |-> src2]

LoadImm(reg, value) == [op |-> "LoadImm", reg |-> reg, value |-> value]

RegInst(op, reg) == [op |-> op, reg |-> reg]

LabelInst(op, label) == [op |-> op, label |-> label]

\* instructions of every arm of execute, with registers 0 and 1, the invalid
\* register 16, the defined label "fn" and the undefined label "zz"
Program ==
    { LoadImm(0, 3), LoadImm(1, -1), LoadImm(16, 0),
      I3("IAdd", 0, 0, 1), I3("ISub", 0, 0, 1), I3("IMul", 1, 0, 1), I3("IXor", 0, 0, 1),
      I3("IAdd", 16, 0, 1),
      [op |-> "Load", reg |-> 1, addr |-> 0], [op |-> "Store", addr |-> 0, reg |-> 1],
      RegInst("Push", 0), RegInst("Push", 16), RegInst("Pop", 1), RegInst("Pop", 16),
      [op |-> "TapeRead", reg |-> 1, len |-> 2], [op |-> "TapeWrite", reg |-> 0, len |-> 2],
      [op |-> "TapeSeek", position |-> 4096], RegInst("TapeSeekReg", 1),
      [op |-> "TapeAdvance", delta |-> 1],
      LabelInst("TapeMark", "a"), LabelInst("TapeSeekMark", "a"),
      LabelInst("Jump", "fn"), LabelInst("Jump", "zz"),
      [op |-> "BranchZero", reg |-> 0, label |-> "fn"],
      [op |-> "BranchNotZero", reg |-> 0, label |-> "fn"],
      LabelInst("Call", "fn"), LabelInst("Call", "zz"), [op |-> "Return"],
      LabelInst("Checkpoint", "c"), LabelInst("Rewind", "c"),
      [op |-> "RewindN", steps |-> 0],
      I3("Compare", 1, 0, 1), I3("Equal", 1, 0, 1), I3("LessThan", 1, 0, 1),
      [op |-> "Halt"], [op |-> "Nop"], [op |-> "Debug", message |-> "m"],
      [op |-> "Swap", reg1 |-> 0, reg2 |-> 1] }

\* a call can be made: calls are left and no panic has ended the run
CanCall == budget > 0 /\ ~Faulted(vm.tape.tape)

VMCall(op, inst, r, cp2) ==
    /\ vm' = r.vm
    /\ last' = [op |-> op, inst |-> inst, res |-> r.res, pre |-> vm]
    /\ budget' = budget - 1
    /\ cpsnap' = cp2
    /\ run' = IF op = "execute"
              THEN [run EXCEPT !.n = @ + 1, !.ok = @ /\ r.res = "ok", !.mixed = @ \/ run.revs > 0]
              ELSE [run EXCEPT !.revs = @ + 1]
    /\ UNCHANGED <<build, tape, stape, snaps, written, runner>>

V_execute(program) ==
    /\ CanCall
    /\ \E inst \in program :
        \E r \in {Execute(vm, inst)} :
            VMCall("execute", inst, r,
                   IF inst.op = "Checkpoint" /\ r.res = "ok"
                   THEN MapPut(cpsnap, inst.label,
                               [obs |-> VMObs(r.vm), depth |-> Len(r.vm.history.stack)])
                   ELSE cpsnap)

V_reverse_last ==
    /\ CanCall
    /\ \E r \in {ReverseLast(vm)} : VMCall("reverse_last", [op |-> "none"], r, cpsnap)

MaxCalls == 3

Init == InitWith(MaxCalls)

Next ==
    \/ V_execute(Program)
    \/ V_reverse_last

Spec == Init /\ [][Next]_vars

----------------------------------------------------------------------------
(* A program run forward and then reversed instruction by instruction *)

MaxRoundTrip == 6

\* the time-travel instructions next to a register load and a tape seek
RoundTripProgram ==
    { LoadImm(0, 3), LabelInst("Checkpoint", "c"), [op |-> "RewindN", steps |-> 0],
      [op |-> "TapeSeek", position |-> 5], LabelInst("Rewind", "c") }

RT_execute == run.revs = 0 /\ run.ok /\ run.n < MaxRoundTrip /\ V_execute(RoundTripProgram)

RT_reverse_last == run.ok /\ run.revs < run.n /\ V_reverse_last

InitRoundTrip == InitWith(2 * MaxRoundTrip)

NextRoundTrip ==
    \/ RT_execute
    \/ RT_reverse_last

SpecRoundTrip == InitRoundTrip /\ [][NextRoundTrip]_vars

----------------------------------------------------------------------------
(* Pushes and pops *)

MaxStackOps == 5

StackProgram ==
    { LoadImm(0, 5), LoadImm(0, 0), LoadImm(1, -2),
      RegInst("Push", 0), RegInst("Push", 1), RegInst("Pop", 0), RegInst("Pop", 1) }

ST_execute == V_execute(StackProgram)

InitStack == InitWith(MaxStackOps)

NextStack == ST_execute

SpecStack == InitStack /\ [][NextStack]_vars

\* the values pushed and not yet popped by the instructions of `frames`,
\* oldest first, each with the SP before its Push
RECURSIVE PushedValues(_)
PushedValues(frames) ==
    IF Len(frames) = 0 THEN <<>>
    ELSE LET rest == PushedValues(SubSeq(frames, 1, Len(frames) - 1))
             f    == frames[Len(frames)]
         IN  IF f.instruction.op = "Push"
             THEN Append(rest, [value |-> f.registers_before.general[f.instruction.reg],
                                sp    |-> f.sp_before])
             ELSE IF f.instruction.op = "Pop" /\ Len(rest) > 0
                  THEN SubSeq(rest, 1, Len(rest) - 1)
                  ELSE rest

----------------------------------------------------------------------------
(* Reads of the tape, next to the writes and seeks that give them something
   to read: Tape::read on the stand-alone tape, TapeRead on the VM *)

MaxReadOps == 3

ReadProgram ==
    { LoadImm(0, 3),
      [op |-> "TapeRead", reg |-> 1, len |-> 2],
      [op |-> "TapeRead", reg |-> 1, len |-> WordBytes + 1],
      [op |-> "TapeRead", reg |-> 16, len |-> 1],
      [op |-> "TapeWrite", reg |-> 0, len |-> 2],
      [op |-> "TapeSeek", position |-> 4095],
      LabelInst("TapeMark", "a") }

RD_read == T_read(ReadLens)

RD_write == T_write(WriteData)

RD_seek == T_seek(SeekPositions)

RD_mark == T_mark(Labels)

RD_execute == V_execute(ReadProgram)

InitReads == InitWith(MaxReadOps)

NextReads ==
    \/ RD_read
    \/ RD_write
    \/ RD_seek
    \/ RD_mark
    \/ RD_execute

SpecReads == InitReads /\ [][NextReads]_vars

----------------------------------------------------------------------------
(* Jumps, branches and calls to labels of the symbol table and of the tape *)

MaxLabelOps == 3

BranchInst(op, reg, label) == [op |-> op, reg |-> reg, label |-> label]

\* "fn" is a symbol and becomes a mark as well, "a" is a mark only, "zz" is
\* never defined
LabelProgram ==
    { LoadImm(0, 3), [op |-> "TapeSeek", position |-> 4096],
      LabelInst("TapeMark", "fn"), LabelInst("TapeMark", "a"),
      LabelInst("Jump", "fn"), LabelInst("Jump", "a"), LabelInst("Jump", "zz"),
      BranchInst("BranchZero", 0, "a"), BranchInst("BranchZero", 0, "zz"),
      BranchInst("BranchNotZero", 0, "fn"), BranchInst("BranchNotZero", 0, "zz"),
      LabelInst("Call", "fn"), LabelInst("Call", "a"), LabelInst("Call", "zz") }

L_execute == V_execute(LabelProgram)

InitLabels == InitWith(MaxLabelOps)

NextLabels == L_execute

SpecLabels == InitLabels /\ [][NextLabels]_vars

----------------------------------------------------------------------------
(* Arithmetic on operands at and around the ends of the word range *)

MaxArithOps == 3

ArithProgram ==
    { LoadImm(0, 10), LoadImm(1, 20), LoadImm(0, MaxWord), LoadImm(0, MinWord),
      LoadImm(1, MaxWord), LoadImm(1, MinWord), LoadImm(1, -1),
      I3("IAdd", 2, 0, 1), I3("ISub", 2, 0, 1), I3("IMul", 2, 0, 1),
      I3("IAdd", 0, 0, 1), I3("IMul", 0, 0, 0), I3("ISub", 1, 1, 1) }

A_execute == V_execute(ArithProgram)

InitArith == InitWith(MaxArithOps)

NextArith == A_execute

SpecArith == InitArith /\ [][NextArith]_vars

\* the sum, negation, difference and product of the integers a and b reduced
\* to the word range modulo 2^(8 * WordBytes), computed without leaving it
ModAdd(a, b) ==
    IF b > 0 /\ a > MaxWord - b THEN (a - MaxWord - 1) + (b - MaxWord - 1)
    ELSE IF b < 0 /\ a < MinWord - b THEN (a - MinWord) + (b - MinWord)
    ELSE a + b

ModNeg(a) == IF a = MinWord THEN MinWord ELSE -a

ModSub(a, b) == ModAdd(a, ModNeg(b))

\* by the digits of b in base 4: a * b = (4 * a) * (b div 4) + a * (b mod 4)
RECURSIVE ModMul(_, _)
ModMul(a, b) ==
    IF b = 0 THEN 0
    ELSE IF b = -1 THEN ModNeg(a)
    ELSE ModAdd(ModMul(ModAdd(ModAdd(a, a), ModAdd(a, a)), b \div 4),
                CASE b % 4 = 0 -> 0
                  [] b % 4 = 1 -> a
                  [] b % 4 = 2 -> ModAdd(a, a)
                  [] b % 4 = 3 -> ModAdd(ModAdd(a, a), a))

ModResult(op, a, b) ==
    CASE op = "IAdd" -> ModAdd(a, b)
      [] op = "ISub" -> ModSub(a, b)
      [] op = "IMul" -> ModMul(a, b)

----------------------------------------------------------------------------
(* Calls on the register file of the VM (pub registers: RegisterFile) *)

MaxRegOps == 3

\* Register = u8: the two ends of the valid ids, the first invalid id and
\* the largest u8
RegisterIds == {0, 15, 16, 255}

RegisterValues == {42, -100, 0}

RegCall(op, arg, rf2, ok, ret) ==
    /\ budget > 0
    /\ vm' = [vm EXCEPT !.registers = rf2]
    /\ last' = [op |-> op, arg |-> arg, ok |-> ok, ret |-> ret, pre |-> vm.registers,
                prev |-> IF last.op = "registers.write" THEN [op |-> last.op, arg |-> last.arg, ok |-> last.ok]
                         ELSE [op |-> "other"]]
    /\ budget' = budget - 1
    /\ UNCHANGED <<build, tape, stape, snaps, written, cpsnap, run, runner>>

R_read ==
    \E reg \in RegisterIds :
        \E r \in {RegRead(vm.registers, reg)} :
            RegCall("registers.read", [reg |-> reg], vm.registers, r.ok, r.value)

R_write ==
    \E reg \in RegisterIds, value \in RegisterValues :
        \E w \in {RegWrite(vm.registers, reg, value)} :
            RegCall("registers.write", [reg |-> reg, value |-> value], w.rf, w.ok, 0)

R_update_flags ==
    \E value \in RegisterValues :
        RegCall("registers.update_flags", [value |-> value], UpdateFlags(vm.registers, value),
                TRUE, 0)

InitRegs == InitWith(MaxRegOps)

NextRegs ==
    \/ R_read
    \/ R_write
    \/ R_update_flags

SpecRegs == InitRegs /\ [][NextRegs]_vars

----------------------------------------------------------------------------
(* The runner (pvmr): the fetch/execute loop over a parsed program *)

MaxRunnerSteps == 5

\* what the operator may type at the prompt after an error
OperatorInputs == {"r", "d", "q"}

\* programs that halt, fail, run off the end, jump out of the program, jump
\* to a negative index, loop, or rewind to a checkpoint; "fn" is the label of
\* index 2
RunnerPrograms ==
    { <<LoadImm(0, 3), [op |-> "Halt"], [op |-> "Nop"]>>,
      <<[op |-> "TapeSeek", position |-> -1], LabelInst("TapeMark", "m"),
        LabelInst("Jump", "m"), [op |-> "Nop"]>>,
      <<LoadImm(16, 0), [op |-> "Halt"]>>,
      <<[op |-> "Nop"], LabelInst("Jump", "fn")>>,
      <<LoadImm(0, 3), [op |-> "RewindN", steps |-> 0], [op |-> "Halt"]>>,
      <<LabelInst("Jump", "zz")>>,
      <<[op |-> "Nop"], [op |-> "Nop"], BranchInst("BranchZero", 0, "fn")>>,
      <<LabelInst("Checkpoint", "c"), [op |-> "TapeSeek", position |-> 5],
        LabelInst("Rewind", "c"), [op |-> "Halt"]>> }

\* a loop test that compares the signed IP
InProgramSigned(ip, len) == ip < len

\* (vm.ip as usize) < instructions.len(): a negative IP becomes a usize of
\* at least 2^63
InProgram(ip, len) == ip >= 0 /\ ip < len

\* the condition of the while loop
LoopCondition(v, rn) == InProgram(v.ip, Len(rn.instructions)) /\ ~rn.halted

\* instructions[vm.ip as usize]: indexing out of bounds panics
Fetch(instructions, ip) ==
    IF ip + 1 \in DOMAIN instructions THEN [ok |-> TRUE, inst |-> instructions[ip + 1]]
    ELSE [ok |-> FALSE, inst |-> [op |-> "none"]]

\* the body of the loop after execute returned r, the operator typing
\* `input` at the prompt; pc "loop" is `continue` or the end of the body,
\* "done" is `break`, "aborted" a panic or a loop that does not end
AfterExecute(rn, r, input) ==
    CASE r.res = "ok" ->
             [vm |-> r.vm, runner |-> [rn EXCEPT !.instruction_count = @ + 1]]
      [] r.res = "halt" ->
             [vm |-> r.vm, runner |-> [rn EXCEPT !.halted = TRUE]]
      [] r.res = "err" /\ input = "r" ->
             LET rr == ReverseLast(r.vm)
             IN  [vm |-> rr.vm,
                  runner |-> [rn EXCEPT !.pc = CASE rr.res = "ok" -> "loop"
                                                 [] rr.res = "err" -> "done"
                                                 [] OTHER -> "aborted"]]
      [] r.res = "err" /\ input = "d" ->
             [vm |-> r.vm, runner |-> rn]
      [] r.res = "err" /\ input \notin {"r", "d"} ->
             [vm |-> r.vm, runner |-> [rn EXCEPT !.pc = "done"]]
      [] OTHER ->
             [vm |-> r.vm, runner |-> [rn EXCEPT !.pc = "aborted"]]

RunnerStep(inst, r, input, a) ==
    /\ vm' = a.vm
    /\ runner' = a.runner
    /\ last' = [op |-> "run.execute", inst |-> inst, res |-> r.res, pre |-> vm,
                halted_before |-> runner.halted, input |-> input]
    /\ budget' = budget - 1
    /\ UNCHANGED <<build, tape, stape, snaps, written, cpsnap, run>>

\* the fetch panicked: the process ends there
RunnerIndexPanic ==
    /\ runner' = [runner EXCEPT !.pc = "index out of bounds"]
    /\ budget' = budget - 1
    /\ UNCHANGED <<build, tape, stape, vm, last, snaps, written, cpsnap, run>>

\* one iteration of the loop whose condition holds: fetch, execute, and the
\* handling of the result
P_iterate ==
    /\ budget > 0
    /\ runner.pc = "loop"
    /\ LoopCondition(vm, runner)
    /\ \E f \in {Fetch(runner.instructions, vm.ip)} :
        IF f.ok
        THEN \E r \in {Execute(vm, f.inst)} :
                \E input \in IF r.res = "err" THEN OperatorInputs ELSE {"none"} :
                    \E a \in {AfterExecute(runner, r, input)} :
                        RunnerStep(f.inst, r, input, a)
        ELSE RunnerIndexPanic

\* the loop condition is false: the loop ends
P_exit ==
    /\ runner.pc = "loop"
    /\ ~LoopCondition(vm, runner)
    /\ runner' = [runner EXCEPT !.pc = "done"]
    /\ UNCHANGED <<build, tape, stape, vm, last, budget, snaps, written, cpsnap, run>>

\* VM::new(), the parser's labels copied into vm.symbols, load_program
InitRunner ==
    /\ InitObjects(MaxRunnerSteps)
    /\ \E instructions \in RunnerPrograms :
        /\ vm = LoadProgram(VMNew(Symbols), instructions)
        /\ runner = [instructions |-> instructions, halted |-> FALSE,
                     instruction_count |-> 0, pc |-> "loop"]

NextRunner ==
    \/ P_iterate
    \/ P_exit

SpecRunner == InitRunner /\ [][NextRunner]_vars

----------------------------------------------------------------------------
(* Checkpoints, rewinds and reversals issued by the program itself *)

MaxRewindOps == 7

RW_execute == V_execute(RoundTripProgram)

InitRewinds == InitWith(MaxRewindOps)

NextRewinds == RW_execute

SpecRewinds == InitRewinds /\ [][NextRewinds]_vars

----------------------------------------------------------------------------
(* Word reads at addresses below, at and across page boundaries *)

MaxLoadOps == 4

\* r1 stays 0, so the Store writes at address 0; r0 is the address of the
\* Load: 0, the last byte of page 0, or -1
LoadProgramSet ==
    { LoadImm(0, -1), LoadImm(0, 4095),
      [op |-> "Store", addr |-> 1, reg |-> 0], [op |-> "Load", reg |-> 2, addr |-> 0],
      RegInst("Pop", 2), [op |-> "Return"] }

LD_execute == V_execute(LoadProgramSet)

InitLoads == InitWith(MaxLoadOps)

NextLoads == LD_execute

SpecLoads == InitLoads /\ [][NextLoads]_vars

----------------------------------------------------------------------------
(* Properties of the Tape *)

\* C2: after rewind_n(k) with k not larger than the trail length, the head,
\* the byte at every position and the marks equal what they were immediately
\* before the last k journaled operations.
C2_RewindNRestoresObservableTape ==
    (last.op = "rewind_n" /\ last.arg <= TrailLen(last.pre))
        => (~Faulted(tape) /\ TapeObs(tape) = last.expect)

\* C4: after checkpoint(name) followed only by write, seek, advance and mark,
\* a successful rewind(name) leaves the head and the byte at every position
\* as they were when the checkpoint was taken.
C4_RewindRestoresCheckpointState ==
    (last.op = "rewind" /\ last.ok /\ last.cp[last.arg].plain)
        => /\ tape.head = last.cp[last.arg].obs.head
           /\ TapeBytes(tape) = last.cp[last.arg].obs.bytes

\* C5: read(len) with the head at h >= 0 returns len bytes, the i-th being
\* the byte most recently written at h + i, or 0 if none was.
C5_ReadReturnsStoredBytes ==
    (last.op = "read" /\ last.pre.head >= 0)
        => /\ last.ok
           /\ Len(last.ret) = last.arg
           /\ \A i \in 0..(last.arg - 1) : last.ret[i + 1] = At(written, last.pre.head + i)

\* C6: a write at a negative head position does not abort, a read at the
\* same position then returns the written bytes, and no byte outside the
\* written range changes.
C6_NegativeHeadWriteReadDefined ==
    (last.op = "write" /\ last.pre.head < 0)
        => /\ ~Faulted(tape)
           /\ TapeRead(tape, Len(last.arg)) = [data |-> last.arg, fault |-> "none"]
           /\ LET rng == last.pre.head..(last.pre.head + Len(last.arg) - 1)
              IN  \A p \in (DOMAIN TapeBytes(tape) \cup DOMAIN TapeBytes(last.pre)) \ rng :
                      At(TapeBytes(tape), p) = At(TapeBytes(last.pre), p)

\* C24: write(bytes) with the head at h >= 0 appends exactly one trail entry,
\* a Write with pos = h, new = bytes and old = the bytes stored at
\* h .. h + len - 1 before the write, and leaves the head at h.
C24_WriteJournalsOldAndNew ==
    (last.op = "write" /\ last.pre.head >= 0)
        => /\ ~Faulted(tape)
           /\ tape.head = last.pre.head
           /\ tape.trail.operations =
                  Append(last.pre.trail.operations,
                         WriteOp(last.pre.head,
                                 [i \in 1..Len(last.arg) |->
                                      At(TapeBytes(last.pre), last.pre.head + i - 1)],
                                 last.arg))

\* C30: after a successful rewind(name) the trail length equals the length
\* the most recent checkpoint(name) stored, whatever calls came in between.
C30_RewindReachesCheckpointLength ==
    (last.op = "rewind" /\ last.ok)
        => TrailLen(tape) = last.pre.trail.checkpoints[last.arg]

----------------------------------------------------------------------------
(* Properties of the VM *)

\* C1: after n instructions that all executed without error on a freshly
\* constructed VM, n calls of reverse_last run to completion and leave the
\* tape bytes, the head, the marks, the registers and flags, IP, SP, FP and
\* the trail length as they were right after construction.
C1_ReverseAllRestoresFreshVM ==
    (run.ok /\ ~run.mixed /\ run.revs >= 1)
        => /\ ~Faulted(vm.tape.tape)
           /\ run.revs = run.n => VMObs(vm) = VMObs(VMNew(Symbols))

\* C3: right after a successful Rewind c the registers, flags, IP, SP, FP,
\* tape head, tape bytes, marks, trail length and history depth equal those
\* right after the last Checkpoint c finished.
C3_RewindRestoresStateAfterCheckpoint ==
    (last.op = "execute" /\ last.inst.op = "Rewind" /\ last.res = "ok"
        /\ last.inst.label \in DOMAIN cpsnap)
        => /\ VMObs(vm) = cpsnap[last.inst.label].obs
           /\ Len(vm.history.stack) = cpsnap[last.inst.label].depth

\* C7: executing an instruction other than Rewind and RewindN never makes
\* the trail shorter; reverse_last, Rewind (Tape.rewind) and RewindN
\* (Tape.rewind_n through reverse_last) never make it longer.
C7_JournalMonotonicity ==
    /\ (last.op = "execute" /\ last.inst.op \notin {"Rewind", "RewindN"})
           => TrailLen(vm.tape.tape) >= TrailLen(last.pre.tape.tape)
    /\ (last.op = "reverse_last" \/ (last.op = "execute" /\ last.inst.op \in {"Rewind", "RewindN"}))
           => TrailLen(vm.tape.tape) <= TrailLen(last.pre.tape.tape)

\* a reverse_last that took entries off the trail of a VM whose tape holds
\* written bytes
C7_Witness ==
    /\ last.op = "reverse_last"
    /\ last.res = "ok"
    /\ TrailLen(vm.tape.tape) < TrailLen(last.pre.tape.tape)
    /\ \E i \in DOMAIN last.pre.tape.tape.trail.operations :
           last.pre.tape.tape.trail.operations[i].op = "Write"

\* C8: when execute returns an error other than Halt, the frame pushed for
\* that instruction is the top of the history stack and one reverse_last
\* brings registers, flags, IP, SP, FP, head, bytes, marks and trail length
\* back to their values just before the failed execute.
C8_ErrorLeavesFrameToReverse ==
    (last.op = "execute" /\ last.res = "err")
        => /\ Len(vm.history.stack) = Len(last.pre.history.stack) + 1
           /\ vm.history.stack[Len(vm.history.stack)].instruction = last.inst
           /\ ReverseLast(vm).res = "ok"
           /\ VMObs(ReverseLast(vm).vm) = VMObs(last.pre)

\* C9: reverse_last on an empty history stack returns an error and leaves
\* registers, flags, IP, SP, FP, the tape and the history unchanged.
C9_ReverseLastOnEmptyHistory ==
    (last.op = "reverse_last" /\ Len(last.pre.history.stack) = 0)
        => /\ last.res = "err"
           /\ vm = last.pre

\* reverse_last called on a history emptied by an earlier reverse_last, the
\* checkpoint table still holding an entry
C9_Witness ==
    /\ last.op = "reverse_last"
    /\ Len(last.pre.history.stack) = 0
    /\ DOMAIN last.pre.history.checkpoints # {}
    /\ last.res = "err"

\* C12: in every state reached from construction by execute and
\* reverse_last, the segments code, stack and heap exist with the start and
\* size they had at construction.
C12_SegmentsNeverDestroyed ==
    /\ DOMAIN vm.tape.segments = {"code", "stack", "heap"}
    /\ vm.tape.segments["code"].start = 0
    /\ vm.tape.segments["stack"].start = SEGMENT_SIZE
    /\ vm.tape.segments["heap"].start = 2 * SEGMENT_SIZE
    /\ \A name \in {"code", "stack", "heap"} : vm.tape.segments[name].size = SEGMENT_SIZE

\* a Rewind that took written bytes and trail entries back, segments in place
C12_Witness ==
    /\ last.op = "execute" /\ last.inst.op = "Rewind" /\ last.res = "ok"
    /\ TrailLen(vm.tape.tape) < TrailLen(last.pre.tape.tape)
    /\ DOMAIN vm.tape.segments = {"code", "stack", "heap"}

\* C17: a Pop returns the value of the latest Push not yet popped and sets
\* SP to its value before that Push (LoadImm r v; Push r; LoadImm r 0; Pop r
\* leaves R[r] = v and SP unchanged; values come back in reverse order).
C17_PushPopDuality ==
    (last.op = "execute" /\ last.inst.op = "Pop" /\ last.res = "ok"
        /\ Len(PushedValues(last.pre.history.stack)) > 0)
        => LET pushed == PushedValues(last.pre.history.stack)
               top    == pushed[Len(pushed)]
           IN  /\ vm.registers.general[last.inst.reg] = top.value
               /\ vm.sp = top.sp

\* a Pop into r0 of the negative value pushed second, one value left below
C17_Witness ==
    /\ last.op = "execute" /\ last.inst = RegInst("Pop", 0) /\ last.res = "ok"
    /\ Len(PushedValues(last.pre.history.stack)) = 2
    /\ vm.registers.general[0] = -2

\* the call before this one was an execute of a Call that jumped to its
\* label: no frame has been taken off the history, and the newest frame is
\* that of a Call whose label resolves
AfterCall ==
    /\ run.revs = 0
    /\ Len(last.pre.history.stack) > 0
    /\ last.pre.history.stack[Len(last.pre.history.stack)].instruction.op = "Call"
    /\ ResolveLabel(last.pre, last.pre.history.stack[Len(last.pre.history.stack)].instruction.label).ok

\* C18: Call L followed at once by Return leaves IP one past the Call, SP and
\* FP as before the Call and the general registers unchanged.
C18_CallReturnDuality ==
    (last.op = "execute" /\ last.inst.op = "Return" /\ AfterCall)
        => LET frames == last.pre.history.stack
               f      == frames[Len(frames)]
           IN  /\ last.res = "ok"
               /\ vm.ip = f.ip_before + 1
               /\ vm.sp = f.sp_before
               /\ vm.fp = f.fp_before
               /\ vm.registers.general = f.registers_before.general

\* a Return from a Call made at index 1 with a value on the stack
C18_Witness ==
    /\ last.op = "execute" /\ last.inst.op = "Return" /\ last.res = "ok"
    /\ AfterCall
    /\ vm.ip = 2
    /\ vm.sp # SEGMENT_SIZE

\* C19: right after construction IP = 0, SP = FP = 1 MiB, the 16 registers
\* are 0, the flags false, and the segments are code at 0, stack at 1 MiB
\* and heap at 2 MiB, each 1 MiB long.
C19_StateAfterConstruction ==
    last.op = "new"
        => /\ vm.ip = 0 /\ vm.sp = 1024 * 1024 /\ vm.fp = 1024 * 1024
           /\ DOMAIN vm.registers.general = 0..15
           /\ \A r \in 0..15 : vm.registers.general[r] = 0
           /\ vm.registers.flags =
                  [zero |-> FALSE, carry |-> FALSE, overflow |-> FALSE, negative |-> FALSE]
           /\ DOMAIN vm.tape.segments = {"code", "stack", "heap"}
           /\ vm.tape.segments["code"].start = 0
           /\ vm.tape.segments["stack"].start = 1024 * 1024
           /\ vm.tape.segments["heap"].start = 2 * 1024 * 1024
           /\ \A name \in {"code", "stack", "heap"} : vm.tape.segments[name].size = 1024 * 1024

\* the VM as constructed, before any call
C19_Witness ==
    /\ last.op = "new"
    /\ run.n = 0 /\ run.revs = 0
    /\ Len(vm.history.stack) = 0
    /\ "heap" \in DOMAIN vm.tape.segments

\* C20: right after construction the tape trail and the history stack are
\* empty.
C20_TrailAndHistoryEmptyAfterConstruction ==
    last.op = "new" => (TrailLen(vm.tape.tape) = 0 /\ Len(vm.history.stack) = 0)

\* the frame execute(inst) builds from the VM v it is called on
FrameOf(v, inst) ==
    [instruction      |-> inst,
     registers_before |-> v.registers,
     ip_before        |-> v.ip,
     sp_before        |-> v.sp,
     fp_before        |-> v.fp,
     tape_trail_len   |-> TrailLen(v.tape.tape)]

IsPrefix(s, t) == Len(s) <= Len(t) /\ s = SubSeq(t, 1, Len(s))

\* C21: every execute, whatever the instruction (Nop, Debug, Compare, Equal,
\* LessThan and Halt included), pushes exactly one frame whose registers,
\* ip_before, sp_before, fp_before and trail length are those of the VM at
\* the call; only Rewind and RewindN take frames off afterwards.
C21_OneFramePerExecute ==
    last.op = "execute"
        => LET pushed == Append(last.pre.history.stack, FrameOf(last.pre, last.inst))
           IN  IF last.inst.op \in {"Rewind", "RewindN"}
               THEN IsPrefix(vm.history.stack, pushed)
               ELSE vm.history.stack = pushed

\* a Compare executed on registers changed by an earlier instruction, its
\* frame holding those registers
C21_Witness ==
    /\ last.op = "execute" /\ last.inst.op = "Compare" /\ last.res = "ok"
    /\ Len(vm.history.stack) = 2
    /\ vm.history.stack[2].registers_before.general[0] = 3
    /\ vm.history.stack[2].ip_before = 1

\* C22: the history depth counts the instructions completed and not
\* reversed: an execute that completes adds one, an execute that fails or
\* halts adds none, a reverse_last that succeeds takes one off (Rewind and
\* RewindN, which reverse several, set aside).
C22_DepthCountsCompletedInstructions ==
    /\ (last.op = "execute" /\ last.inst.op \notin {"Rewind", "RewindN"})
           => Len(vm.history.stack) =
                  Len(last.pre.history.stack) + (IF last.res = "ok" THEN 1 ELSE 0)
    /\ (last.op = "reverse_last" /\ last.res = "ok")
           => Len(vm.history.stack) = Len(last.pre.history.stack) - 1

\* C23: Tape.read and the TapeRead instruction leave the head, every tape
\* byte, the marks and the trail unchanged; TapeRead changes only R[reg], IP
\* and the history stack.
C23_ReadsDoNotMutate ==
    /\ last.op = "read"
           => /\ TapeObs(tape) = TapeObs(last.pre)
              /\ tape.trail = last.pre.trail
    /\ (last.op = "execute" /\ last.inst.op = "TapeRead")
           => /\ TapeObs(vm.tape.tape) = TapeObs(last.pre.tape.tape)
              /\ vm.tape.tape.trail = last.pre.tape.tape.trail
              /\ vm.tape.segments = last.pre.tape.segments
              /\ vm.sp = last.pre.sp /\ vm.fp = last.pre.fp
              /\ vm.registers.flags = last.pre.registers.flags
              /\ \A r \in 0..(NUM_REGISTERS - 1) :
                     r # last.inst.reg => vm.registers.general[r] = last.pre.registers.general[r]

\* a TapeRead that brought written bytes into its register, the tape holding
\* a trail entry for the write
C23_Witness ==
    /\ last.op = "execute" /\ last.inst.op = "TapeRead" /\ last.res = "ok"
    /\ vm.registers.general[1] = 3
    /\ last.pre.registers.general[1] = 0
    /\ vm.ip = last.pre.ip + 1
    /\ TrailLen(vm.tape.tape) > 3

\* the last call executed a Jump, a Call, or a branch whose test succeeded
LabelLookedUp ==
    /\ last.op = "execute"
    /\ \/ last.inst.op \in {"Jump", "Call"}
       \/ last.inst.op = "BranchZero" /\ last.pre.registers.general[last.inst.reg] = 0
       \/ last.inst.op = "BranchNotZero" /\ last.pre.registers.general[last.inst.reg] # 0

\* C25: Jump, BranchZero, BranchNotZero and Call take a label from the symbol
\* table if it is there, else from the tape's marks, and fail with an error
\* if it is in neither.
C25_LabelResolutionOrder ==
    LabelLookedUp
        => IF last.inst.label \in DOMAIN last.pre.symbols
           THEN last.res = "ok" /\ vm.ip = last.pre.symbols[last.inst.label]
           ELSE IF last.inst.label \in DOMAIN last.pre.tape.tape.marks
                THEN last.res = "ok" /\ vm.ip = last.pre.tape.tape.marks[last.inst.label]
                ELSE last.res = "err"

\* a Jump to "fn", which is the symbol 2 and also a mark at position 4096
C25_Witness ==
    /\ LabelLookedUp /\ last.inst = LabelInst("Jump", "fn") /\ last.res = "ok"
    /\ "fn" \in DOMAIN last.pre.tape.tape.marks
    /\ last.pre.tape.tape.marks["fn"] = 4096
    /\ vm.ip = 2

\* C26: BranchZero r,lbl sets IP to the label when R[r] = 0 and to IP + 1
\* otherwise, BranchNotZero the other way round; neither changes a register,
\* a flag, SP, FP or the tape, and a branch not taken succeeds even when the
\* label is unknown.
C26_BranchSemantics ==
    (last.op = "execute" /\ last.inst.op \in {"BranchZero", "BranchNotZero"}
        /\ last.inst.reg < NUM_REGISTERS)
        => /\ vm.registers = last.pre.registers
           /\ vm.sp = last.pre.sp /\ vm.fp = last.pre.fp
           /\ vm.tape = last.pre.tape
           /\ IF LabelLookedUp
              THEN (last.inst.label \in DOMAIN last.pre.symbols \cup DOMAIN last.pre.tape.tape.marks)
                       => /\ last.res = "ok"
                          /\ vm.ip = IF last.inst.label \in DOMAIN last.pre.symbols
                                     THEN last.pre.symbols[last.inst.label]
                                     ELSE last.pre.tape.tape.marks[last.inst.label]
              ELSE last.res = "ok" /\ vm.ip = last.pre.ip + 1

\* a BranchZero to the unknown label "zz" that is not taken because R0 = 3
C26_Witness ==
    /\ last.op = "execute" /\ last.inst = BranchInst("BranchZero", 0, "zz")
    /\ last.pre.registers.general[0] = 3
    /\ last.res = "ok"
    /\ vm.ip = last.pre.ip + 1

\* C27: IAdd, ISub and IMul on valid registers never fail: the destination
\* receives the result reduced modulo 2^(word width), flag zero tells whether
\* it is 0 and flag negative whether it is below 0; 10 + 20 gives 30 with
\* both flags false.
C27_ArithmeticWraps ==
    (last.op = "execute" /\ last.inst.op \in {"IAdd", "ISub", "IMul"}
        /\ last.inst.dst < NUM_REGISTERS /\ last.inst.src1 < NUM_REGISTERS
        /\ last.inst.src2 < NUM_REGISTERS)
        => LET a      == last.pre.registers.general[last.inst.src1]
               b      == last.pre.registers.general[last.inst.src2]
               result == vm.registers.general[last.inst.dst]
           IN  /\ last.res = "ok"
               /\ result = ModResult(last.inst.op, a, b)
               /\ vm.registers.flags.zero = (result = 0)
               /\ vm.registers.flags.negative = (result < 0)
               /\ (last.inst.op = "IAdd" /\ a = 10 /\ b = 20) => result = 30

\* an IAdd of two positive operands whose sum is beyond the largest word
C27_Witness ==
    /\ last.op = "execute" /\ last.inst = I3("IAdd", 2, 0, 1) /\ last.res = "ok"
    /\ last.pre.registers.general[0] = MaxWord
    /\ last.pre.registers.general[1] = 20
    /\ vm.registers.general[2] = MinWord + 19
    /\ vm.registers.flags.negative

\* C28: read and write with an id of 16 or more return an error and leave
\* the 16 registers and the flags unchanged; with an id in 0..15 they
\* succeed, and a read that follows a write of the same id returns the value
\* written.
C28_RegisterIdsChecked ==
    /\ last.op = "registers.read"
           => /\ vm.registers = last.pre
              /\ IF last.arg.reg >= 16 THEN ~last.ok
                 ELSE /\ last.ok
                      /\ (last.prev.op = "registers.write" /\ last.prev.arg.reg = last.arg.reg)
                             => last.ret = last.prev.arg.value
    /\ last.op = "registers.write"
           => IF last.arg.reg >= 16 THEN ~last.ok /\ vm.registers = last.pre
              ELSE last.ok /\ vm.registers.general[last.arg.reg] = last.arg.value

\* a write to register 16 refused on a register file that holds a value and
\* a set flag
C28_Witness ==
    /\ last.op = "registers.write" /\ last.arg.reg = 16 /\ ~last.ok
    /\ vm.registers.general[15] = -100
    /\ vm.registers.flags.negative

\* C29: the runner executes instructions[IP] only while 0 <= IP < program
\* length and no Halt was signalled; after the Halt nothing more is executed
\* and nothing is reversed; a negative IP ends the loop and never indexes the
\* program.
C29_RunnerLoop ==
    /\ last.op = "run.execute"
           => /\ last.pre.ip >= 0
              /\ last.pre.ip < Len(runner.instructions)
              /\ last.inst = runner.instructions[last.pre.ip + 1]
              /\ ~last.halted_before
    /\ runner.halted
           => /\ last.op = "run.execute" /\ last.res = "halt" /\ last.input = "none"
              /\ vm.history.stack = Append(last.pre.history.stack, FrameOf(last.pre, last.inst))
    /\ runner.pc # "index out of bounds"
    /\ (runner.pc = "loop" /\ vm.ip < 0) => ~LoopCondition(vm, runner)

\* the loop ended by a Halt at index 1 with an instruction left behind it
C29_Witness ==
    /\ runner.halted /\ runner.pc = "done"
    /\ runner.instruction_count = 1
    /\ vm.ip = 1
    /\ Len(runner.instructions) = 3

\* the word stored at pos, pos + 1, ... of the tape
StoredWord(t, pos) == FromLeBytes([i \in 1..WordBytes |-> At(TapeBytes(t), pos + i - 1)])

\* the VM is inside a callee: no call was reversed, and the newest Call,
\* Return, Rewind or RewindN of the history is a Call whose label resolves
InCallee(v) ==
    /\ run.revs = 0
    /\ \E i \in DOMAIN v.history.stack :
        /\ v.history.stack[i].instruction.op = "Call"
        /\ ResolveLabel(v, v.history.stack[i].instruction.label).ok
        /\ \A j \in (i + 1)..Len(v.history.stack) :
            v.history.stack[j].instruction.op \notin {"Call", "Return", "Rewind", "RewindN"}

\* C31: Return takes the saved frame pointer from the word at FP and the
\* return address from the word behind it, and leaves SP two words above the
\* old FP, also when the callee left SP different from FP.
C31_ReturnUnwindsFromFP ==
    (last.op = "execute" /\ last.inst.op = "Return" /\ last.res = "ok" /\ InCallee(last.pre))
        => /\ vm.fp = StoredWord(last.pre.tape.tape, last.pre.fp)
           /\ vm.ip = StoredWord(last.pre.tape.tape, last.pre.fp + WordBytes)
           /\ vm.sp = last.pre.fp + 2 * WordBytes

\* C32: RewindN r with R[r] = n reverses n instructions, its own frame
\* first: for 0 <= n <= depth + 1 it succeeds, leaves depth + 1 - n frames
\* and the registers, IP, SP, FP and trail length of the last frame popped;
\* for a larger n it returns an error.
C32_RewindNReversesNTimes ==
    (last.op = "execute" /\ last.inst.op = "RewindN" /\ last.inst.steps < NUM_REGISTERS)
        => LET pre   == last.pre
               n     == pre.registers.general[last.inst.steps]
               depth == Len(pre.history.stack)
               frame == IF n = 1 THEN FrameOf(pre, last.inst)
                        ELSE pre.history.stack[depth + 2 - n]
           IN  /\ (0 <= n /\ n <= depth + 1)
                      => /\ last.res = "ok"
                         /\ Len(vm.history.stack) = depth + 1 - n
                         /\ n >= 1 => /\ vm.registers = frame.registers_before
                                      /\ vm.ip = frame.ip_before
                                      /\ vm.sp = frame.sp_before
                                      /\ vm.fp = frame.fp_before
                                      /\ TrailLen(vm.tape.tape) = frame.tape_trail_len
               /\ n > depth + 1 => last.res = "err"

\* C33: every frame of the history records a trail length that is at most
\* the tape's current trail length and at least that of the frame below it.
C33_FrameTrailLengthsOrdered ==
    ~Faulted(vm.tape.tape)
        => \A i \in DOMAIN vm.history.stack :
            /\ vm.history.stack[i].tape_trail_len <= TrailLen(vm.tape.tape)
            /\ i > 1 => vm.history.stack[i - 1].tape_trail_len <= vm.history.stack[i].tape_trail_len

\* C34: in a program run by the runner, a Rewind c that succeeds leaves the
\* IP at the index following the Checkpoint c instruction, so the run goes
\* on behind the block instead of entering it again.
C34_RewindGoesOnBehindCheckpoint ==
    (last.op = "run.execute" /\ last.inst.op = "Rewind" /\ last.res = "ok")
        => /\ vm.ip >= 1
           /\ vm.ip <= Len(runner.instructions)
           /\ runner.instructions[vm.ip] = LabelInst("Checkpoint", last.inst.label)

\* C35: an execute that returns an error other than the Halt leaves the
\* registers, flags, IP, SP, FP, the tape head, the tape bytes and the trail
\* length as they were before the call.
C35_FailedInstructionIsAtomic ==
    (last.op = "execute" /\ last.res = "err")
        => /\ vm.registers = last.pre.registers
           /\ vm.ip = last.pre.ip
           /\ vm.sp = last.pre.sp
           /\ vm.fp = last.pre.fp
           /\ vm.tape.tape.head = last.pre.tape.tape.head
           /\ TrailLen(vm.tape.tape) = TrailLen(last.pre.tape.tape)
           /\ TapeBytes(vm.tape.tape) = TapeBytes(last.pre.tape.tape)

\* the tape positions the stack instructions read or write, from the SP and
\* FP before the instruction
StackAccess(v, inst) ==
    LET word(pos) == pos..(pos + WordBytes - 1)
    IN  CASE inst.op = "Push" -> word(v.sp - WordBytes)
          [] inst.op = "Pop" -> word(v.sp)
          [] inst.op = "Call" -> word(v.sp - WordBytes) \cup word(v.sp - 2 * WordBytes)
          [] inst.op = "Return" -> word(v.fp) \cup word(v.sp + WordBytes)
          [] OTHER -> {}

\* C36: every byte that Push, Pop, Call and Return read or write lies in the
\* stack segment, [stack.start, stack.start + stack.size).
C36_StackAccessInStackSegment ==
    (last.op = "execute" /\ last.res = "ok")
        => \A pos \in StackAccess(last.pre, last.inst) :
            /\ pos >= vm.tape.segments["stack"].start
            /\ pos < vm.tape.segments["stack"].start + vm.tape.segments["stack"].size

\* C37: Push, Pop, Call and Return leave the position of the tape head as it
\* was before the instruction.
C37_StackInstructionsKeepHead ==
    (last.op = "execute" /\ last.res = "ok" /\ last.inst.op \in {"Push", "Pop", "Call", "Return"})
        => vm.tape.tape.head = last.pre.tape.tape.head

\* C38: Load, Pop and Return with valid registers never return an error and
\* never abort, whatever the address: the word read from the tape always has
\* its full length.
C38_WordReadsNeverFail ==
    (/\ last.op = "execute"
     /\ \/ last.inst.op = "Load" /\ last.inst.reg < NUM_REGISTERS /\ last.inst.addr < NUM_REGISTERS
        \/ last.inst.op = "Pop" /\ last.inst.reg < NUM_REGISTERS
        \/ last.inst.op = "Return")
        => last.res = "ok"

====
